---- MODULE Spec2Model ----
(***************************************************************************)
(* A model of the configuration package of jclem/lib                       *)
(* (packages/config/src/config.ts): the deep merge of fragments, the       *)
(* parser builders and their synchronous and asynchronous resolutions.      *)
(*                                                                         *)
(* Values.  A JavaScript value that a fragment can hold is a tagged        *)
(* record: [t |-> "num", v |-> n] and [t |-> "str", v |-> n] are scalars   *)
(* (the n-th number, the n-th string), [t |-> "null"] and [t |-> "arr"]    *)
(* are the two non-record, non-scalar shapes, and [t |-> "rec", m |-> f]   *)
(* is a plain object, f a function from its keys to values.  A key is a    *)
(* sequence of one-character strings.                                      *)
(*                                                                         *)
(* Heap.  Objects have identity in JavaScript, so the merge is modelled on *)
(* a heap: a sequence of objects, an address being an index into it.  An   *)
(* object is a function from its keys to cells; a cell is a scalar value   *)
(* or a reference [t |-> "ref", a |-> address].                            *)
(***************************************************************************)
EXTENDS Integers, Sequences, FiniteSets, TLC

VARIABLES
    mpc,        \* deepMerge call: "ready" before the call, "done" after it
    mfrags,     \* the fragments (values) the input list was built from
    minputs,    \* the input list: addresses of the fragments in mheap
    mheap,      \* the heap
    mresult     \* address of the object deepMerge returned (0 before)

VARIABLES
    api,        \* the version of config.ts in use: "v1" (lines 1-307, the
                \* builder with readValue/readFile/readEnv/readAsync) or
                \* "v2" (lines 309-501, the reader-based parser)
    kind,       \* class of the parser at the end of the builder chain
    reads,      \* its #reads (v1) or #readers (v2), in registration order
    recv,       \* the ConfigParser readAsync was called on (v1): whether
                \* there is one, and its #reads
    target,     \* the object of the last terminal operation: "this" (the
                \* end of the chain) or "receiver"
    rpc,        \* resolution: "idle", "pending" (awaiting readers), "done"
    op,         \* the terminal operation called last ("none" before)
    slots,      \* resolvedReads: per reader, its promise's state
    calls,      \* the readers invoked by the resolution, in order of call
    order,      \* the asynchronous readers settled so far, in order
    validated,  \* the input handed to the schema (NoInput when none was)
    outcome     \* what the operation returned or threw (NoOutcome before)

VARIABLES
    cpc,        \* call of a helper function: "ready" before it, "done" after
    cargs,      \* its arguments
    cret        \* what it returned or threw

VARIABLES
    cheap,      \* concurrent resolutions: the heap they share
    robj,       \* per reader, the address of the object it yields
    runs        \* per resolution: its state, promises, input and outcome

VARIABLES
    arrays,     \* builder chains: the arrays of reads, by address
    parsers,    \* the parsers made so far: class and address of #reads
    bcall       \* the builder method called last, its receiver, what it returned

mergeVars == <<mpc, mfrags, minputs, mheap, mresult>>
parserVars ==
    <<api, kind, reads, recv, target, rpc, op, slots, calls, order, validated, outcome>>
callVars == <<cpc, cargs, cret>>
concVars == <<cheap, robj, runs>>
buildVars == <<arrays, parsers, bcall>>
vars == <<mergeVars, parserVars, callVars, concVars, buildVars>>

\* No helper call and no concurrent resolutions are modelled.
CallOff == cpc = "off" /\ cargs = <<>> /\ cret = <<>>
ConcOff == cheap = <<>> /\ robj = <<>> /\ runs = <<>>

\* No builder chain with several parsers is modelled.
BuildOff == arrays = <<>> /\ parsers = <<>> /\ bcall = <<>>

----------------------------------------------------------------------------
(* Values *)

Num(n) == [t |-> "num", v |-> n]
Str(n) == [t |-> "str", v |-> n]
Rec(f) == [t |-> "rec", m |-> f]
Ref(a) == [t |-> "ref", a |-> a]
Null == [t |-> "null"]
Arr == [t |-> "arr"]

EmptyObj == [k \in {} |-> Null]

\* obj[key] = v
SetProp(obj, key, v) ==
    [k \in (DOMAIN obj) \cup {key} |-> IF k = key THEN v ELSE obj[k]]

\* The object with the single property key: v, and with two properties.
Obj1(k1, v1) == SetProp(EmptyObj, k1, v1)
Obj2(k1, v1, k2, v2) == SetProp(Obj1(k1, v1), k2, v2)

\* z.record(z.string(), z.unknown()).safeParse(value).success: true of plain
\* objects only (not of scalars, null, undefined or arrays).  On the heap a
\* plain object is a reference; as a value it is a "rec".
isZodRecord(value) ==
    value.t \in {"ref", "rec"}

\* The absent property (undefined).
Undefined == [t |-> "undefined"]

----------------------------------------------------------------------------
(* The heap *)

\* F(e), the value of e taken once (LET x == e IN F(x)).
Once(e, F(_)) == CHOOSE r \in { F(x) : x \in {e} } : TRUE

\* heap[a][key] = cell
HeapSet(h, a, key, cell) ==
    [h EXCEPT ![a] = SetProp(h[a], key, cell)]

\* Allocation of a value on the heap: a scalar is its own cell, a record
\* becomes a fresh object whose nested records are allocated first.
RECURSIVE Store(_, _)
RECURSIVE StoreProps(_, _, _, _)
StoreProps(h, f, keys, obj) ==
    IF keys = {} THEN [h |-> h, obj |-> obj]
    ELSE Once(CHOOSE k \in keys : TRUE, LAMBDA key :
         Once(Store(h, f[key]), LAMBDA s :
              StoreProps(s.h, f, keys \ {key}, SetProp(obj, key, s.c))))

Store(h, val) ==
    IF val.t # "rec" THEN [h |-> h, c |-> val]
    ELSE Once(StoreProps(h, val.m, DOMAIN val.m, EmptyObj), LAMBDA p :
              [h |-> Append(p.h, p.obj), c |-> Ref(Len(p.h) + 1)])

\* The fragments of a list allocated one after the other; as: their addresses.
RECURSIVE StoreAll(_, _, _)
StoreAll(h, frags, as) ==
    IF Len(as) = Len(frags) THEN [h |-> h, as |-> as]
    ELSE Once(Store(h, Rec(frags[Len(as) + 1])), LAMBDA s :
              StoreAll(s.h, frags, Append(as, s.c.a)))

\* The value an address stands for (structural content).
RECURSIVE Deref(_, _)
Deref(h, a) ==
    [k \in DOMAIN h[a] |->
        IF h[a][k].t = "ref" THEN Rec(Deref(h, h[a][k].a)) ELSE h[a][k]]

----------------------------------------------------------------------------
(* deepMerge, config.ts 484-501 (and the identical 190-207) *)

RECURSIVE deepMerge(_, _)
RECURSIVE MergeInputs(_, _, _, _)
RECURSIVE MergeKeys(_, _, _, _)

\* The body of the for-in loop for one key: an in-place variant that merges
\* the incoming record into the stored one instead of building a new object.
MergeKeyInPlace(h, output, input, key) ==
    LET inputValue == h[input][key]
        outputValue == IF key \in DOMAIN h[output] THEN h[output][key] ELSE Undefined
    IN IF isZodRecord(inputValue) /\ isZodRecord(outputValue)
       THEN MergeInputs(h, outputValue.a, <<inputValue.a>>, 1)
       ELSE HeapSet(h, output, key, inputValue)

\* The body of the for-in loop for one key: a variant without the recursion
\* (the incoming value always replaces the stored one).
MergeKeyShallow(h, output, input, key) ==
    HeapSet(h, output, key, h[input][key])

\* The body of the for-in loop for one key: a variant in which a stored
\* record is not given up for an incoming value that is no record.
MergeKeyKeepsRecord(h, output, input, key) ==
    LET inputValue == h[input][key]
        outputValue == IF key \in DOMAIN h[output] THEN h[output][key] ELSE Undefined
    IN IF isZodRecord(inputValue) /\ isZodRecord(outputValue)
       THEN LET r == deepMerge(h, <<outputValue.a, inputValue.a>>)
            IN HeapSet(r.h, output, key, Ref(r.r))
       ELSE IF isZodRecord(outputValue) THEN h
       ELSE HeapSet(h, output, key, inputValue)

\* The body of the for-in loop for one key (lines 489-496).
MergeKey(h, output, input, key) ==
    LET inputValue == h[input][key]
        outputValue == IF key \in DOMAIN h[output] THEN h[output][key] ELSE Undefined
    IN IF isZodRecord(inputValue) /\ isZodRecord(outputValue)
       THEN Once(deepMerge(h, <<outputValue.a, inputValue.a>>), LAMBDA r :
                 HeapSet(r.h, output, key, Ref(r.r)))
       ELSE HeapSet(h, output, key, inputValue)

\* for (const key in input) { ... } over the keys still to visit.
MergeKeys(h, output, input, keys) ==
    IF keys = {} THEN h
    ELSE Once(CHOOSE k \in keys : TRUE, LAMBDA key :
         Once(MergeKey(h, output, input, key), LAMBDA merged :
              MergeKeys(merged, output, input, keys \ {key})))

\* inputs.map((input) => { ... }) from the i-th input on.
MergeInputs(h, output, inputs, i) ==
    IF i > Len(inputs) THEN h
    ELSE Once(MergeKeys(h, output, inputs[i], DOMAIN h[inputs[i]]), LAMBDA merged :
              MergeInputs(merged, output, inputs, i + 1))

\* deepMerge: a variant whose loop misses the first input.
deepMergeSkipFirst(h, inputs) ==
    LET output == Len(h) + 1
    IN [h |-> MergeInputs(Append(h, EmptyObj), output, inputs, 2),
        r |-> output]

\* deepMerge: a variant that uses the first input as the output object.
deepMergeIntoFirst(h, inputs) ==
    IF Len(inputs) = 0 THEN [h |-> Append(h, EmptyObj), r |-> Len(h) + 1]
    ELSE [h |-> MergeInputs(h, inputs[1], inputs, 2), r |-> inputs[1]]

\* deepMerge(inputs) on heap h: the heap after the call and the address r of
\* the object returned (const output = {}; inputs.map(...); return output).
deepMerge(h, inputs) ==
    LET output == Len(h) + 1
    IN [h |-> MergeInputs(Append(h, EmptyObj), output, inputs, 1),
        r |-> output]

\* deepMerge on values: the fragments are allocated on an empty heap, merged,
\* and the result read back.
MergeValues(frags) ==
    Once(StoreAll(<<>>, frags, <<>>), LAMBDA s :
         Once(deepMerge(s.h, s.as), LAMBDA r : Deref(r.h, r.r)))

----------------------------------------------------------------------------
(* Outcomes of a call: a value returned (or resolved to) or an error thrown
   (or rejected with) *)

Ok(val) == [k |-> "ok", val |-> val]
Throw(err) == [k |-> "throw", err |-> err]

----------------------------------------------------------------------------
(* Schemas (zod).  The shape of an object schema keeps the order of its keys. *)

ZString == [k |-> "string"]
ZNumber == [k |-> "number"]
ZOptional(inner) == [k |-> "optional", inner |-> inner]
ZDefault(inner, dv) == [k |-> "default", inner |-> inner, dv |-> dv]
ZObject(shape) == [k |-> "object", shape |-> shape]
Field(key, node) == [key |-> key, node |-> node]

\* value instanceof z.ZodObject, value instanceof z.ZodDefault
isZodObject(schema) == schema.k = "object"
isZodDefault(schema) == schema.k = "default"

\* A validation problem (a zod issue): the path of the field, the kind
\* expected and the kind received.
Problem(path, expected, received) ==
    [path |-> path, expected |-> expected, received |-> received]

\* schema.safeParse(value) of zod at `path`: ok, the parsed data (Undefined
\* for an absent optional) and the problems found.  Objects strip unknown
\* keys and report the problems of all their fields; a default replaces an
\* absent value before its inner schema is applied.
RECURSIVE zodParse(_, _, _)
RECURSIVE zodParseShape(_, _, _, _, _)
zodParseShape(shape, obj, path, i, acc) ==
    IF i > Len(shape) THEN acc
    ELSE LET key == shape[i].key
             child == IF key \in DOMAIN obj THEN obj[key] ELSE Undefined
         IN Once(zodParse(shape[i].node, child, Append(path, key)), LAMBDA r :
            Once([data |-> IF r.ok /\ r.data # Undefined
                           THEN SetProp(acc.data, key, r.data) ELSE acc.data,
                  problems |-> acc.problems \cup r.problems], LAMBDA next :
                 zodParseShape(shape, obj, path, i + 1, next)))

zodParse(schema, value, path) ==
    IF schema.k = "object" THEN
        IF value.t # "rec"
        THEN [ok |-> FALSE, data |-> Undefined,
              problems |-> {Problem(path, "object", value.t)}]
        ELSE Once(zodParseShape(schema.shape, value.m, path, 1,
                                [data |-> EmptyObj, problems |-> {}]), LAMBDA r :
                  [ok |-> r.problems = {},
                   data |-> IF r.problems = {} THEN Rec(r.data) ELSE Undefined,
                   problems |-> r.problems])
    ELSE IF schema.k = "default" THEN
        zodParse(schema.inner, IF value = Undefined THEN schema.dv ELSE value, path)
    ELSE IF schema.k = "optional" THEN
        IF value = Undefined
        THEN [ok |-> TRUE, data |-> Undefined, problems |-> {}]
        ELSE zodParse(schema.inner, value, path)
    ELSE LET want == IF schema.k = "string" THEN "str" ELSE "num"
         IN IF value.t = want
            THEN [ok |-> TRUE, data |-> value, problems |-> {}]
            ELSE [ok |-> FALSE, data |-> Undefined,
                  problems |-> {Problem(path, schema.k, value.t)}]

\* schema.safeParse(input): the tagged result.
SafeParseReturn(r) ==
    IF r.ok THEN [success |-> TRUE, data |-> r.data]
    ELSE [success |-> FALSE, error |-> r.problems]

schemaSafeParse(schema, input) == SafeParseReturn(zodParse(schema, input, <<>>))

\* schema.parse(input): the data, or the ZodError thrown.
DataOrThrow(r) ==
    IF r.success THEN Ok(r.data)
    ELSE Throw([type |-> "ZodError", issues |-> r.error])

schemaParse(schema, input) == DataOrThrow(schemaSafeParse(schema, input))

----------------------------------------------------------------------------
(* Path encoding, config.ts 212-220 and 378-387.  A string is a sequence of
   one-character strings. *)

\* The letters, lower case and upper case; every other character ("_", "-")
\* has no case.
LowerLetters ==
    <<"a", "b", "c", "d", "e", "f", "g", "h", "i", "j", "k", "l", "m",
      "n", "o", "p", "q", "r", "s", "t", "u", "v", "w", "x", "y", "z">>
UpperLetters ==
    <<"A", "B", "C", "D", "E", "F", "G", "H", "I", "J", "K", "L", "M",
      "N", "O", "P", "Q", "R", "S", "T", "U", "V", "W", "X", "Y", "Z">>

\* [A-Z]
UpperCase == {UpperLetters[i] : i \in DOMAIN UpperLetters}

\* c.toUpperCase() of one character
toUpperCase(c) ==
    IF \E i \in DOMAIN LowerLetters : LowerLetters[i] = c
    THEN UpperLetters[CHOOSE i \in DOMAIN LowerLetters : LowerLetters[i] = c]
    ELSE c

\* segment.split(/(?=[A-Z])/): a new piece starts before every capital letter
\* that is not the first character.
RECURSIVE SplitCaps(_, _, _)
RECURSIVE SplitCapsAfterLower(_, _, _)
\* segment.split(/(?=[A-Z])/): a variant that starts a new piece only at a
\* capital letter that follows a lower-case letter.
SplitCapsAfterLower(seg, i, pieces) ==
    IF i > Len(seg) THEN pieces
    ELSE IF i > 1 /\ seg[i] \in UpperCase
              /\ \E k \in DOMAIN LowerLetters : LowerLetters[k] = seg[i - 1]
         THEN SplitCapsAfterLower(seg, i + 1, Append(pieces, <<seg[i]>>))
         ELSE SplitCapsAfterLower(seg, i + 1,
                [pieces EXCEPT ![Len(pieces)] = Append(@, seg[i])])

SplitCaps(seg, i, pieces) ==
    IF i > Len(seg) THEN pieces
    ELSE IF i > 1 /\ seg[i] \in UpperCase
         THEN SplitCaps(seg, i + 1, Append(pieces, <<seg[i]>>))
         ELSE SplitCaps(seg, i + 1,
                [pieces EXCEPT ![Len(pieces)] = Append(@, seg[i])])

split(seg) == SplitCaps(seg, 1, << <<>> >>)

\* parts.join(sep)
RECURSIVE join(_, _)
join(parts, sep) ==
    IF Len(parts) = 0 THEN <<>>
    ELSE IF Len(parts) = 1 THEN parts[1]
    ELSE parts[1] \o sep \o join(Tail(parts), sep)

\* part.toUpperCase()
upper(part) == [i \in 1..Len(part) |-> toUpperCase(part[i])]

\* The environment-style path encoder: a variant that joins the segments
\* with one underscore.
envVarNameOneUnderscore(path) ==
    join([i \in 1..Len(path) |->
            LET parts == split(path[i])
            IN join([j \in 1..Len(parts) |-> upper(parts[j])], <<"_">>)],
         <<"_">>)

\* The environment-style path encoder.
envVarName(path) ==
    join([i \in 1..Len(path) |->
            LET parts == split(path[i])
            IN join([j \in 1..Len(parts) |-> upper(parts[j])], <<"_">>)],
         <<"_", "_">>)

\* (path) => path.join("-"), the encoder of the flat-reader test.
hyphenJoin(path) == join(path, <<"-">>)

----------------------------------------------------------------------------
(* The flat readers: getEnvInput (config.ts 209-264) and readFlatRecord
   (416-461).  A flat dictionary is a function from keys to values. *)

\* record[key], Undefined when absent
Lookup(record, key) == IF key \in DOMAIN record THEN record[key] ELSE Undefined

\* A function value; it is no record.
Fn == [t |-> "function"]

\* A key that every object literal inherits from Object.prototype, where it
\* holds a function ("constructor"; toString, valueOf, ... are alike).
kconstructor == <<"c", "o", "n", "s", "t", "r", "u", "c", "t", "o", "r">>
ObjectPrototypeKeys == {kconstructor}

\* position[key] of an object built from {}: its own property, or the one it
\* inherits.
GetProp(position, key) ==
    IF key \in DOMAIN position THEN position[key]
    ELSE IF key \in ObjectPrototypeKeys THEN Fn
    ELSE Undefined

\* The write of `value` at `path` below `position` (238-256, 436-453), i the
\* index of the current segment: the position with the value written, or
\* the error thrown at a segment that holds a non-record.
RECURSIVE WritePath(_, _, _, _)
WritePath(position, path, i, value) ==
    LET key == path[i]
    IN IF i = Len(path) THEN Ok(SetProp(position, key, value))
       ELSE LET old == GetProp(position, key)
                newPosition == IF old.t \in {"undefined", "null"}
                               THEN Rec(EmptyObj) ELSE old
            IN IF isZodRecord(newPosition)
               THEN LET r == WritePath(newPosition.m, path, i + 1, value)
                    IN IF r.k = "ok"
                       THEN Ok(SetProp(position, key, Rec(r.val))) ELSE r
               ELSE Throw([type |-> "ExpectedRecord",
                           at |-> SubSeq(path, 1, i - 1)])

\* readInput(input, schema, path) of readFlatRecord, and readEnv(path,
\* schema) of getEnvInput: the walk of the schema.  acc is Ok(input so far)
\* or the error thrown; enc is the path-to-key function, given by name.
Encode(enc, path) == IF enc = "env" THEN envVarName(path) ELSE hyphenJoin(path)

RECURSIVE readInput(_, _, _, _, _)
RECURSIVE readShape(_, _, _, _, _, _)
RECURSIVE readShapeConsuming(_, _, _, _, _, _)
\* The loop over the shape: a variant in which a key of the dictionary that
\* one child has read is not there for the children after it.
readShapeConsuming(acc, env, enc, shape, path, i) ==
    IF i > Len(shape) \/ acc.k = "throw" THEN acc
    ELSE readShapeConsuming(
            readInput(acc, env, enc, shape[i].node, Append(path, shape[i].key)),
            [k \in (DOMAIN env) \ {Encode(enc, Append(path, shape[i].key))} |-> env[k]],
            enc, shape, path, i + 1)

readShape(acc, env, enc, shape, path, i) ==
    IF i > Len(shape) \/ acc.k = "throw" THEN acc
    ELSE readShape(readInput(acc, env, enc, shape[i].node,
                             Append(path, shape[i].key)),
                   env, enc, shape, path, i + 1)

\* readInput: a variant that takes null for a value (value !== undefined).
readInputNullPresent(acc, env, enc, schema, path) ==
    IF acc.k = "throw" THEN acc
    ELSE IF isZodObject(schema) THEN readShape(acc, env, enc, schema.shape, path, 1)
    ELSE IF isZodDefault(schema) THEN readInput(acc, env, enc, schema.inner, path)
    ELSE LET value == Lookup(env, Encode(enc, path))
         IN IF value.t = "undefined" \/ Len(path) = 0 THEN acc
            ELSE WritePath(acc.val, path, 1, value)

\* The default-wrapped node: a variant that writes the fallback value where
\* the walk below the wrapper read nothing.
DefaultApplied(acc, r, schema, path) ==
    IF r = acc /\ acc.k = "ok" /\ Len(path) > 0
    THEN WritePath(acc.val, path, 1, schema.dv) ELSE r

readInputWithDefaults(acc, env, enc, schema, path) ==
    IF acc.k = "throw" THEN acc
    ELSE IF isZodObject(schema) THEN readShape(acc, env, enc, schema.shape, path, 1)
    ELSE IF isZodDefault(schema)
         THEN DefaultApplied(acc, readInput(acc, env, enc, schema.inner, path),
                             schema, path)
    ELSE LET value == Lookup(env, Encode(enc, path))
         IN IF value.t \in {"undefined", "null"} \/ Len(path) = 0 THEN acc
            ELSE WritePath(acc.val, path, 1, value)

\* readInput: a variant that looks through every wrapper, not only defaults.
readInputThroughWrappers(acc, env, enc, schema, path) ==
    IF acc.k = "throw" THEN acc
    ELSE IF isZodObject(schema) THEN readShape(acc, env, enc, schema.shape, path, 1)
    ELSE IF isZodDefault(schema) \/ schema.k \in {"optional", "nullable", "effects"}
    THEN readInput(acc, env, enc, schema.inner, path)
    ELSE LET value == Lookup(env, Encode(enc, path))
         IN IF value.t \in {"undefined", "null"} \/ Len(path) = 0 THEN acc
            ELSE WritePath(acc.val, path, 1, value)

readInput(acc, env, enc, schema, path) ==
    IF acc.k = "throw" THEN acc
    ELSE IF isZodObject(schema) THEN readShape(acc, env, enc, schema.shape, path, 1)
    ELSE IF isZodDefault(schema) THEN readInput(acc, env, enc, schema.inner, path)
    ELSE LET value == Lookup(env, Encode(enc, path))
         IN IF value.t \in {"undefined", "null"} \/ Len(path) = 0 THEN acc
            ELSE WritePath(acc.val, path, 1, value)

readFlatRecord(env, schema, pathToKey) ==
    readInput(Ok(EmptyObj), env, pathToKey, schema, <<>>)

getEnvInput(read, schema) ==
    readInput(Ok(EmptyObj), read.env, "env", schema, <<>>)

----------------------------------------------------------------------------
(* Inputs of the merge specification *)

kx == <<"x">>
ky == <<"y">>
ka == <<"a">>
kb == <<"b">>

\* The fragments the inputs are drawn from: the empty fragment, scalars and
\* records of depth 1 and 2 under key x, and fragments with a second key y.
FragSet ==
    { EmptyObj,
      Obj1(kx, Num(1)), Obj1(kx, Num(2)), Obj1(kx, Rec(EmptyObj)),
      Obj1(kx, Rec(Obj1(ka, Num(1)))), Obj1(kx, Rec(Obj1(ka, Num(2)))),
      Obj1(kx, Rec(Obj1(kb, Num(2)))),
      Obj1(kx, Rec(Obj1(ka, Rec(Obj1(ka, Num(1)))))),
      Obj1(kx, Rec(Obj1(ka, Rec(Obj1(kb, Num(2)))))),
      Obj1(ky, Num(1)), Obj2(kx, Num(1), ky, Num(1)),
      Obj2(kx, Rec(Obj1(ka, Rec(Obj1(kb, Num(2))))), ky, Num(1)) }

MaxFrags == 3

FragLists == UNION { [1..n -> FragSet] : n \in 0..MaxFrags }

----------------------------------------------------------------------------
(* The merge specification: deepMerge applied to every list of fragments *)

\* The parser is not in use (the merge specification).
ParserOff ==
    /\ api = "none" /\ kind = "none" /\ reads = <<>> /\ rpc = "off"
    /\ recv = [exists |-> FALSE, reads |-> <<>>] /\ target = "this"
    /\ op = "none" /\ slots = <<>> /\ calls = <<>> /\ order = <<>>
    /\ validated = [k |-> "none"] /\ outcome = [k |-> "none"]

InitMerge ==
    /\ ParserOff /\ CallOff /\ ConcOff /\ BuildOff
    /\ mpc = "ready"
    /\ mfrags \in FragLists
    /\ LET s == StoreAll(<<>>, mfrags, <<>>)
       IN mheap = s.h /\ minputs = s.as
    /\ mresult = 0

DeepMergeCall ==
    /\ mpc = "ready"
    /\ LET r == deepMerge(mheap, minputs)
       IN mheap' = r.h /\ mresult' = r.r
    /\ mpc' = "done"
    /\ UNCHANGED <<mfrags, minputs>>
    /\ UNCHANGED <<parserVars, callVars, concVars, buildVars>>

NextMerge == DeepMergeCall

SpecMerge == InitMerge /\ [][NextMerge]_vars

----------------------------------------------------------------------------
(* Readers *)

\* v1 read sources (config.ts 6-19).  `fn` and `read` give what the call of
\* the caller's function yields: a value, or an error thrown (a promise
\* resolved or rejected, for the asynchronous function).
ReadRecord(value) == [type |-> "record", value |-> value]
ReadFile(path, out) == [type |-> "file", path |-> path, read |-> out]
ReadEnv(env) == [type |-> "env", env |-> env]
ReadFn(out) == [type |-> "function", fn |-> out]
ReadFnAsync(out) == [type |-> "function-async", fn |-> out]

\* v2 readers (config.ts 319): functions of the schema.  valueReader and
\* caller-written functions yield a fixed outcome, synchronously or as a
\* promise; flatReader and envReader read a flat record.
Reader(async, out) == [type |-> "reader", async |-> async, flat |-> FALSE, out |-> out]
valueReader(value) == Reader(FALSE, Ok(value))
flatReader(record, pathToKey) ==
    [type |-> "reader", async |-> FALSE, flat |-> TRUE,
     record |-> record, pathToKey |-> pathToKey]
envReader(env) == flatReader(env, "env")

isAsync(read) ==
    IF read.type = "reader" THEN read.async ELSE read.type = "function-async"

\* typeof input
typeof(value) ==
    CASE value.t = "str" -> "string" [] value.t = "num" -> "number"
      [] value.t = "undefined" -> "undefined"
      [] value.t = "function" -> "function" [] OTHER -> "object"

\* getFileInput (config.ts 266-278)
getFileInput(read) ==
    IF read.read.k = "throw" THEN read.read
    ELSE IF ~isZodRecord(read.read.val)
         THEN Throw([type |-> "FileNotRecord", path |-> read.path,
                     got |-> typeof(read.read.val)])
         ELSE read.read

\* The switch of gatherSyncInputs (282-291): what one synchronous read
\* yields.  The switch has no default: any other read maps to undefined.
\* The object a flat read built, as the value the read yields.
AsValue(r) == IF r.k = "ok" THEN Ok(Rec(r.val)) ELSE r

ReadSync(read, schema) ==
    CASE read.type = "env" -> AsValue(getEnvInput(read, schema))
      [] read.type = "file" -> getFileInput(read)
      [] read.type = "function" -> read.fn
      [] read.type = "record" -> Ok(read.value)
      [] OTHER -> Ok(Undefined)

\* read(schema) of a v2 reader.
ReaderCall(read, schema) ==
    IF read.flat
    THEN AsValue(readFlatRecord(read.record, schema, read.pathToKey))
    ELSE read.out

\* The objects of a list of values, as deepMerge's for-in loop sees them: a
\* string has its indices as keys (a string that is not empty stands for a
\* string of one character: key "0", whose value is that character), any
\* other value that is no record has no keys to visit.
Objs(vals) ==
    [i \in 1..Len(vals) |->
        IF vals[i].t = "rec" THEN vals[i].m
        ELSE IF vals[i].t = "str" /\ vals[i].v # 0 THEN Obj1(<<"0">>, vals[i])
        ELSE EmptyObj]

\* gatherSyncInputs: the order in which the resolved reads are merged; a
\* variant that merges them in reverse.
SyncMergeOrderReversed(vals) == [i \in 1..Len(vals) |-> vals[Len(vals) + 1 - i]]

\* gatherSyncInputs: deepMerge(resolvedReads) takes them in the order of reads.
SyncMergeOrder(vals) == vals

\* gatherSyncInputs (config.ts 280-295): reads.map runs the reads in order and
\* stops at the first that throws; the results are merged.  n: the number of
\* reads invoked.
RECURSIVE gatherSyncMap(_, _, _, _)
RECURSIVE gatherSyncNext(_, _, _, _, _)
gatherSyncNext(rs, schema, i, vals, r) ==
    IF r.k = "throw" THEN [out |-> r, n |-> i]
    ELSE gatherSyncMap(rs, schema, i + 1, Append(vals, r.val))

gatherSyncMap(rs, schema, i, vals) ==
    IF i > Len(rs) THEN [out |-> Ok(vals), n |-> Len(rs)]
    ELSE gatherSyncNext(rs, schema, i, vals, ReadSync(rs[i], schema))

\* return deepMerge(resolvedReads): a variant that returns the last of the
\* resolved reads.
gatherSyncMergeLast(g) ==
    IF g.out.k = "throw" THEN g
    ELSE [out |-> Ok(Rec(IF Len(g.out.val) = 0 THEN EmptyObj
                         ELSE Objs(g.out.val)[Len(g.out.val)])),
          n |-> g.n]

\* return deepMerge(resolvedReads), g what the map came to.
gatherSyncMerge(g) ==
    IF g.out.k = "throw" THEN g
    ELSE [out |-> Ok(Rec(MergeValues(Objs(SyncMergeOrder(g.out.val))))), n |-> g.n]

gatherSyncInputs(rs, schema) == gatherSyncMerge(gatherSyncMap(rs, schema, 1, <<>>))

----------------------------------------------------------------------------
(* Promises of an asynchronous resolution *)

Pending == [st |-> "pending"]
Resolved(val) == [st |-> "resolved", val |-> val]
Rejected(err) == [st |-> "rejected", err |-> err]

Settled(out) == IF out.k = "ok" THEN Resolved(out.val) ELSE Rejected(out.err)

\* The check of gatherInputs (v2, 471-475) on what a reader resolved to.
CheckRecord(out) ==
    IF out.k = "ok" /\ ~isZodRecord(out.val)
    THEN Throw([type |-> "ReaderNotRecord"]) ELSE out

\* reads.map(async (read) => ...) of #gatherInputs (v1, 177-184) and of
\* gatherInputs (v2, 468-478): every read is invoked, in order; the promise
\* of a synchronous read is settled at once, that of an asynchronous one is
\* pending.
StartSlot(a, read, schema) ==
    IF isAsync(read) THEN Pending
    ELSE IF a = "v1" THEN Settled(gatherSyncInputs(<<read>>, schema).out)
    ELSE Settled(CheckRecord(ReaderCall(read, schema)))

\* What the promise of an asynchronous read settles to when its function's
\* promise does.
SettleSlot(a, read, schema) ==
    IF a = "v1" THEN Settled(read.fn)
    ELSE Settled(CheckRecord(ReaderCall(read, schema)))

\* Promise.all(resolvedReads), all resolved: the values by index, whatever
\* the order ord in which the promises settled; a variant that yields them
\* in the order of settlement (the synchronous reads first).
PromiseAllByCompletion(sl, ord) ==
    LET syncs == SelectSeq([i \in 1..Len(sl) |-> i],
                           LAMBDA i : \A j \in 1..Len(ord) : ord[j] # i)
        by == syncs \o ord
    IN [i \in 1..Len(sl) |-> sl[by[i]].val]

PromiseAll(sl, ord) == [i \in 1..Len(sl) |-> sl[i].val]

\* The first promise of sl that is rejected (0: none).
FirstRejected(sl) ==
    IF \E i \in 1..Len(sl) : sl[i].st = "rejected"
    THEN CHOOSE i \in 1..Len(sl) :
            sl[i].st = "rejected" /\ \A j \in 1..(i - 1) : sl[j].st # "rejected"
    ELSE 0

\* The promise whose rejection rejects Promise.all when the operation is
\* called (0: none).  A read that throws rejects its promise during the map;
\* the record check of v2 rejects it one step later.
StartRejected(a, rs, schema, sl) ==
    LET threw == {i \in 1..Len(rs) :
                    ~isAsync(rs[i]) /\ ReaderCall(rs[i], schema).k = "throw"}
    IN IF a = "v2" /\ threw # {}
       THEN CHOOSE i \in threw : \A j \in threw : i <= j
       ELSE FirstRejected(sl)

\* Whether Promise.all has all its values: a variant that never has.
AllResolvedNever(sl) == FALSE

\* Promise.all is fulfilled once every promise of sl is.
AllResolved(sl) == \A i \in 1..Len(sl) : sl[i].st = "resolved"

\* The validation step of a terminal operation: parse and parseAsync throw
\* the validation error, safeParse and safeParseAsync return the tagged
\* result; a variant of the safe operations that validates with parse.
ValidateThrowing(o, schema, input) == schemaParse(schema, input)

\* A variant whose parse throws an error without the problem list.
ValidateGeneric(o, schema, input) ==
    IF o \in {"parse", "parseAsync"}
    THEN IF schemaSafeParse(schema, input).success THEN schemaParse(schema, input)
         ELSE Throw([type |-> "Error"])
    ELSE Ok(schemaSafeParse(schema, input))

Validate(o, schema, input) ==
    IF o \in {"parse", "parseAsync"} THEN schemaParse(schema, input)
    ELSE Ok(schemaSafeParse(schema, input))

----------------------------------------------------------------------------
(* The parser specification: one builder chain and its resolutions *)

ks == <<"s">>
kn == <<"n">>
ko == <<"o">>
kpS == <<"p", "S">>

\* The schema of the parser:
\*   z.object({ s: z.string(), n: z.number().optional(),
\*              o: z.object({ a: z.string().optional(),
\*                            pS: z.string().optional() }).default({}) })
ConfigSchema ==
    ZObject(<<Field(ks, ZString), Field(kn, ZOptional(ZNumber)),
              Field(ko, ZDefault(ZObject(<<Field(ka, ZOptional(ZString)),
                                           Field(kpS, ZOptional(ZString))>>),
                                 Rec(EmptyObj)))>>)

\* The flat dictionary of the environment readers: { S: "3", O__P_S: "4" }.
EnvDict ==
    Obj2(<<"S">>, Str(3), <<"O", "_", "_", "P", "_", "S">>, Str(4))

\* What the caller's functions, files and values yield.
ValueFrag == Rec(Obj1(ks, Str(1)))
FileFrag == Rec(Obj2(ks, Str(2), kn, Num(1)))
FnFrag == Rec(Obj2(ks, Num(7), ko, Rec(Obj1(ka, Str(5)))))
AsyncFrag == Rec(Obj2(kn, Num(2), ko, Rec(Obj1(ka, Str(6)))))
FnError == [type |-> "FnThrew"]
AsyncError == [type |-> "AsyncRejected"]

\* The arguments of the v1 builder methods.
ValueArgs == { ValueFrag }
FileArgs == { Ok(FileFrag), Ok(Str(9)) }
EnvArgs == { EnvDict }
FnArgs == { Ok(FnFrag), Throw(FnError) }
AsyncFnArgs == { Ok(AsyncFrag), Ok(FileFrag), Throw(AsyncError) }

\* The readers given to read of the v2 parser.
ReaderArgs ==
    { valueReader(ValueFrag), valueReader(Str(9)), envReader(EnvDict),
      Reader(FALSE, Ok(FnFrag)), Reader(FALSE, Throw(FnError)),
      Reader(TRUE, Ok(AsyncFrag)), Reader(TRUE, Ok(FileFrag)),
      Reader(TRUE, Throw(AsyncError)) }

MaxReaders == 3

NoReceiver == [exists |-> FALSE, reads |-> <<>>]
NoInput == [k |-> "none"]
NoOutcome == [k |-> "none"]
Input(val) == [k |-> "input", val |-> val]

\* The deepMerge step is not in use (the parser specification).
MergeOff ==
    /\ mpc = "off" /\ mfrags = <<>> /\ minputs = <<>> /\ mheap = <<>>
    /\ mresult = 0

\* new ConfigParser(schema), of either version (config.ts 29-31, 331-333).
Init ==
    /\ MergeOff /\ CallOff /\ ConcOff /\ BuildOff
    /\ api \in {"v1", "v2"}
    /\ kind = "ConfigParser"
    /\ reads = <<>>
    /\ recv = NoReceiver /\ target = "this"
    /\ rpc = "idle" /\ op = "none" /\ slots = <<>> /\ calls = <<>>
    /\ order = <<>> /\ validated = NoInput /\ outcome = NoOutcome

\* A builder method pushes one read; the chain continues with the parser
\* returned, and what the last resolution left is forgotten.
Push(read, k) ==
    /\ rpc # "pending"
    /\ Len(reads) < MaxReaders
    /\ reads' = Append(reads, read)
    /\ kind' = k
    /\ target' = "this"
    /\ rpc' = "idle" /\ op' = "none" /\ slots' = <<>> /\ calls' = <<>>
    /\ order' = <<>> /\ validated' = NoInput /\ outcome' = NoOutcome
    /\ UNCHANGED <<api, mergeVars, callVars, concVars, buildVars>>

\* read(fn), readFile(path, read, parse), readEnv(env), readValue(value) of
\* ConfigParser (39-93) and of AsyncConfigParser (129-156): push, return this.
Read ==
    /\ api = "v1" /\ UNCHANGED recv
    /\ \E fn \in FnArgs : Push(ReadFn(fn), kind)

ReadFileOp ==
    /\ api = "v1" /\ UNCHANGED recv
    /\ \E out \in FileArgs : Push(ReadFile(1, out), kind)

ReadEnvOp ==
    /\ api = "v1" /\ UNCHANGED recv
    /\ \E env \in EnvArgs : Push(ReadEnv(env), kind)

ReadValue ==
    /\ api = "v1" /\ UNCHANGED recv
    /\ \E value \in ValueArgs : Push(ReadRecord(value), kind)

\* The #reads of the receiver after readAsync(fn): a variant that pushes the
\* asynchronous read onto it (the new parser sharing the array).
readAsyncReceiverPushed(rs, read) == Append(rs, read)

\* The #reads of the receiver after readAsync(fn): [...this.#reads, read] is
\* a copy, the receiver's own array is left as it was.
readAsyncReceiver(rs, read) == rs

\* ConfigParser.readAsync (50-55) returns a new AsyncConfigParser with a copy
\* of the reads and the asynchronous read; AsyncConfigParser.readAsync
\* (134-137) pushes it.
ReadAsync ==
    /\ api = "v1" /\ kind = "ConfigParser"
    /\ \E fn \in AsyncFnArgs :
        /\ Push(ReadFnAsync(fn), "AsyncConfigParser")
        /\ recv' = [exists |-> TRUE,
                    reads |-> readAsyncReceiver(reads, ReadFnAsync(fn))]

AsyncReadAsync ==
    /\ api = "v1" /\ kind = "AsyncConfigParser" /\ UNCHANGED recv
    /\ \E fn \in AsyncFnArgs : Push(ReadFnAsync(fn), kind)

\* read(reader) of the v2 parser (341-344).
ReaderRead ==
    /\ api = "v2" /\ UNCHANGED recv
    /\ \E reader \in ReaderArgs : Push(reader, kind)

\* The state after a synchronous terminal operation o.
SyncDone(t, o, n, input, out) ==
    /\ rpc' = "done" /\ op' = o /\ target' = t
    /\ slots' = <<>> /\ order' = <<>>
    /\ calls' = [i \in 1..n |-> i]
    /\ validated' = input
    /\ outcome' = out
    /\ UNCHANGED <<api, kind, reads, recv, mergeVars, callVars, concVars, buildVars>>

\* The second statement of parse and safeParse, g what gatherSyncInputs came
\* to: the error it threw leaves the call, its input is validated.
SyncValidate(t, o, g) ==
    IF g.out.k = "throw" THEN SyncDone(t, o, g.n, NoInput, g.out)
    ELSE SyncDone(t, o, g.n, Input(g.out.val),
                  Validate(o, ConfigSchema, g.out.val))

\* ConfigParser.parse and safeParse: a variant whose safeParse turns the
\* error of a read into a failure result.
SyncResolveCatching(t, rs, o) ==
    LET g == gatherSyncInputs(rs, ConfigSchema)
    IN IF g.out.k = "throw"
       THEN SyncDone(t, o, g.n, NoInput,
                     IF o = "safeParse"
                     THEN Ok([success |-> FALSE, error |-> {g.out.err}])
                     ELSE g.out)
       ELSE SyncDone(t, o, g.n, Input(g.out.val),
                     Validate(o, ConfigSchema, g.out.val))

\* ConfigParser.parse and safeParse (98-112) on the parser t with reads rs.
SyncResolve(t, rs, o) == SyncValidate(t, o, gatherSyncInputs(rs, ConfigSchema))

Parse ==
    /\ api = "v1" /\ kind = "ConfigParser" /\ rpc # "pending"
    /\ SyncResolve("this", reads, "parse")

SafeParse ==
    /\ api = "v1" /\ kind = "ConfigParser" /\ rpc # "pending"
    /\ SyncResolve("this", reads, "safeParse")

\* parse and safeParse called on the ConfigParser that readAsync was called
\* on earlier.
ReceiverParse ==
    /\ api = "v1" /\ recv.exists /\ rpc # "pending"
    /\ SyncResolve("receiver", recv.reads, "parse")

ReceiverSafeParse ==
    /\ api = "v1" /\ recv.exists /\ rpc # "pending"
    /\ SyncResolve("receiver", recv.reads, "safeParse")

\* What parse and safeParse of an AsyncConfigParser do; a variant that
\* resolves like the class they override.
AsyncSyncResolveInherited(o) ==
    SyncResolve("this", reads, o)

\* AsyncConfigParser.parse and safeParse (158-160, 167-169): throw at once.
AsyncSyncResolve(o) ==
    SyncDone("this", o, 0, NoInput,
             Throw([type |-> "ModeMismatch", method |-> o]))

AsyncParse ==
    /\ api = "v1" /\ kind = "AsyncConfigParser" /\ rpc # "pending"
    /\ AsyncSyncResolve("parse")

AsyncSafeParse ==
    /\ api = "v1" /\ kind = "AsyncConfigParser" /\ rpc # "pending"
    /\ AsyncSyncResolve("safeParse")

\* The statement after `await gatherInputs`: the merged input is validated.
AsyncValidate(o, input) ==
    /\ rpc' = "done" /\ validated' = Input(input)
    /\ outcome' = Validate(o, ConfigSchema, input)

\* A variant that merges and validates as soon as some promise is resolved,
\* over the fragments that have arrived.
ContinueEager(o, sl, ord, rejectedBy) ==
    /\ op' = o /\ slots' = sl /\ order' = ord /\ target' = "this"
    /\ IF rejectedBy # 0
       THEN /\ rpc' = "done" /\ validated' = NoInput
            /\ outcome' = Throw(sl[rejectedBy].err)
       ELSE IF \A i \in 1..Len(sl) : sl[i].st # "resolved"
       THEN /\ rpc' = "pending" /\ validated' = NoInput
            /\ outcome' = NoOutcome
       ELSE AsyncValidate(o, Rec(MergeValues(Objs(
                PromiseAll(SelectSeq(sl, LAMBDA s : s.st = "resolved"), ord)))))
    /\ UNCHANGED <<api, kind, reads, recv, mergeVars, callVars, concVars, buildVars>>

\* A variant that waits for every promise (Promise.allSettled) and validates
\* the merge of the fragments of those that were resolved.
ContinueAllSettled(o, sl, ord, rejectedBy) ==
    /\ op' = o /\ slots' = sl /\ order' = ord /\ target' = "this"
    /\ IF \E i \in 1..Len(sl) : sl[i].st = "pending"
       THEN /\ rpc' = "pending" /\ validated' = NoInput
            /\ outcome' = NoOutcome
       ELSE \E input \in {Rec(MergeValues(Objs(
                PromiseAll(SelectSeq(sl, LAMBDA s : s.st = "resolved"), ord))))} :
                AsyncValidate(o, input)
    /\ UNCHANGED <<api, kind, reads, recv, mergeVars, callVars, concVars, buildVars>>

\* The continuation of an asynchronous resolution once the promises sl stand
\* as they do, ord the order of settlement: rejected with the error of the
\* rejected promise, still pending, or merged and validated.
Continue(o, sl, ord, rejectedBy) ==
    /\ op' = o /\ slots' = sl /\ order' = ord /\ target' = "this"
    /\ IF rejectedBy # 0
       THEN /\ rpc' = "done" /\ validated' = NoInput
            /\ outcome' = Throw(sl[rejectedBy].err)
       ELSE IF ~AllResolved(sl)
       THEN /\ rpc' = "pending" /\ validated' = NoInput
            /\ outcome' = NoOutcome
       ELSE \E input \in {Rec(MergeValues(Objs(PromiseAll(sl, ord))))} :
                AsyncValidate(o, input)
    /\ UNCHANGED <<api, kind, reads, recv, mergeVars, callVars, concVars, buildVars>>

\* await Promise.all(...) over the promises sl the map made.
AwaitAll(o, sl) ==
    Continue(o, sl, <<>>, StartRejected(api, reads, ConfigSchema, sl))

\* The call of an asynchronous terminal operation: every read is invoked.
AsyncStart(o) ==
    /\ rpc # "pending"
    /\ calls' = [i \in 1..Len(reads) |-> i]
    /\ AwaitAll(o, [i \in 1..Len(reads) |-> StartSlot(api, reads[i], ConfigSchema)])

\* AsyncConfigParser.parseAsync and safeParseAsync (162-187).
ParseAsync == api = "v1" /\ kind = "AsyncConfigParser" /\ AsyncStart("parseAsync")
SafeParseAsync == api = "v1" /\ kind = "AsyncConfigParser" /\ AsyncStart("safeParseAsync")

\* parse and safeParse of the v2 parser (349-363), both asynchronous.
ReaderParse == api = "v2" /\ AsyncStart("parse")
ReaderSafeParse == api = "v2" /\ AsyncStart("safeParse")

\* The promise of an asynchronous read settles, in any order.
Settle ==
    /\ rpc = "pending"
    /\ \E i \in 1..Len(slots) :
        /\ slots[i].st = "pending"
        /\ LET s == SettleSlot(api, reads[i], ConfigSchema)
               sl == [slots EXCEPT ![i] = s]
           IN Continue(op, sl, Append(order, i),
                       IF s.st = "rejected" THEN i ELSE 0)
    /\ UNCHANGED calls

Next ==
    \/ Read \/ ReadFileOp \/ ReadEnvOp \/ ReadValue
    \/ ReadAsync \/ AsyncReadAsync \/ ReaderRead
    \/ Parse \/ SafeParse \/ AsyncParse \/ AsyncSafeParse
    \/ ReceiverParse \/ ReceiverSafeParse
    \/ ParseAsync \/ SafeParseAsync \/ ReaderParse \/ ReaderSafeParse
    \/ Settle

Spec == Init /\ [][Next]_vars

\* The heap before the call and the value returned by it.
PreHeap == StoreAll(<<>>, mfrags, <<>>).h
MergeResult == Deref(mheap, mresult)

----------------------------------------------------------------------------
(* The reference fold of the deep merge rule, on values *)

RECURSIVE RefMerge(_)
RECURSIVE RefFold(_, _, _)

\* One fragment folded into the accumulated output: key by key, two records
\* merge recursively, anything else is replaced by the incoming value.
RefStep(out, f) ==
    [k \in (DOMAIN out) \cup (DOMAIN f) |->
        IF k \notin DOMAIN f THEN out[k]
        ELSE IF k \in DOMAIN out /\ out[k].t = "rec" /\ f[k].t = "rec"
             THEN Rec(RefMerge(<<out[k].m, f[k].m>>))
             ELSE f[k]]

RefFold(out, frags, i) ==
    IF i > Len(frags) THEN out
    ELSE RefFold(RefStep(out, frags[i]), frags, i + 1)

RefMerge(frags) == RefFold(EmptyObj, frags, 1)

kc == <<"c">>

\* C8: deepMerge(inputs) equals the reference fold (fragments in order, keys
\* within each fragment; two records at a key merge recursively, otherwise
\* the incoming value replaces the stored one) at every nesting depth, and
\* merge([{o:{a:1,b:1}},{o:{b:2,c:2}}]) = {o:{a:1,b:2,c:2}}.
C8_DeepMergeRule ==
    /\ mpc = "done" => MergeResult = RefMerge(mfrags)
    /\ MergeValues(<<Obj1(ko, Rec(Obj2(ka, Num(1), kb, Num(1)))),
                     Obj1(ko, Rec(Obj2(kb, Num(2), kc, Num(2))))>>)
         = Obj1(ko, Rec(SetProp(Obj2(ka, Num(1), kb, Num(2)), kc, Num(2))))

\* A merge that recursed twice: {x:{a:{a:1}}} and {x:{a:{b:2}}} merged at depth 2.
C8_Witness ==
    /\ mpc = "done"
    /\ mfrags = <<Obj1(kx, Rec(Obj1(ka, Rec(Obj1(ka, Num(1)))))),
                  Obj1(kx, Rec(Obj1(ka, Rec(Obj1(kb, Num(2))))))>>
    /\ MergeResult = Obj1(kx, Rec(Obj1(ka, Rec(Obj2(ka, Num(1), kb, Num(2))))))

\* The list frags with the empty fragment inserted after position i.
InsertEmpty(frags, i) ==
    SubSeq(frags, 1, i) \o <<EmptyObj>> \o SubSeq(frags, i + 1, Len(frags))

\* C9: deepMerge([]) is the empty fragment, deepMerge([f]) is structurally
\* equal to f, and an empty fragment inserted at any position of the list
\* does not change the result.
C9_MergeIdentity ==
    mpc = "done" =>
        /\ Len(mfrags) = 0 => MergeResult = EmptyObj
        /\ Len(mfrags) = 1 => MergeResult = mfrags[1]
        /\ \A i \in 0..Len(mfrags) :
              MergeValues(InsertEmpty(mfrags, i)) = MergeResult

\* A single fragment with a nested record, merged alone.
C9_Witness ==
    /\ mpc = "done"
    /\ mfrags = <<Obj2(kx, Rec(Obj1(ka, Rec(Obj1(kb, Num(2))))), ky, Num(1))>>
    /\ MergeResult = mfrags[1]

\* C10: deepMerge does not mutate its inputs: after the call every object
\* that existed before it (each input fragment and every record nested in
\* one) has exactly the keys and values it had before.
C10_InputsNotMutated ==
    mpc = "done" =>
        /\ \A a \in 1..Len(PreHeap) : mheap[a] = PreHeap[a]
        /\ \A i \in 1..Len(mfrags) : Deref(mheap, minputs[i]) = mfrags[i]

\* The nested record of the first fragment was stored by reference, then two
\* later fragments merged into the same key: the output holds a new object
\* there and the first fragment's record is as it was.
C10_Witness ==
    /\ mpc = "done"
    /\ mfrags = <<Obj1(kx, Rec(Obj1(ka, Num(1)))),
                  Obj1(kx, Rec(Obj1(kb, Num(2)))),
                  Obj1(kx, Rec(Obj1(ka, Num(2))))>>
    /\ mheap[mresult][kx].a > Len(PreHeap)
    /\ MergeResult = Obj1(kx, Rec(Obj2(ka, Num(2), kb, Num(2))))
    /\ Deref(mheap, minputs[1]) = mfrags[1]

----------------------------------------------------------------------------
(* Claims on the parser specification *)

\* What a read yields when its resolution runs it: its fragment, or the
\* error it fails with (for a v2 reader, the record check included).
ReadOutcome(a, read) ==
    IF a = "v2" THEN CheckRecord(ReaderCall(read, ConfigSchema))
    ELSE IF isAsync(read) THEN read.fn
    ELSE ReadSync(read, ConfigSchema)

ReadFails(a, read) == ReadOutcome(a, read).k = "throw"

\* The fragments of a list of reads that all succeed, in registration order.
Fragments(a, rs) == [i \in 1..Len(rs) |-> ReadOutcome(a, rs[i]).val.m]

\* The reads the last terminal operation resolved.
Resolved_reads == IF target = "receiver" THEN recv.reads ELSE reads

\* The last operation was a sync parse or safeParse called on an
\* AsyncConfigParser.
ModeMismatchCall ==
    /\ api = "v1" /\ kind = "AsyncConfigParser" /\ target = "this"
    /\ op \in {"parse", "safeParse"}

\* The last operation is over and ran its reads.
Ran == rpc = "done" /\ op # "none" /\ ~ModeMismatchCall

\* The value at path p of object f (Undefined where there is none).
RECURSIVE At(_, _)
At(f, p) ==
    IF Len(p) = 0 THEN Rec(f)
    ELSE IF p[1] \notin DOMAIN f THEN Undefined
    ELSE IF Len(p) = 1 THEN f[p[1]]
    ELSE IF f[p[1]].t # "rec" THEN Undefined
    ELSE At(f[p[1]].m, Tail(p))

\* The paths of object f that hold a scalar.
RECURSIVE LeafPaths(_)
LeafPaths(f) ==
    UNION { IF f[k].t = "rec"
            THEN { <<k>> \o p : p \in LeafPaths(f[k].m) }
            ELSE { <<k>> } : k \in DOMAIN f }

\* Fragment f leaves path p alone: along p it holds nothing, or records
\* above p that do not reach p.
LeavesAlone(f, p) ==
    /\ At(f, p) = Undefined
    /\ \A n \in 1..(Len(p) - 1) : At(f, SubSeq(p, 1, n)).t \in {"undefined", "rec"}

\* Precedence on the merged input v of the fragments fs: every key of every
\* fragment is kept, and a scalar that reader j supplies at a path which no
\* later reader touches is the value at that path.
Precedence(fs, v) ==
    /\ DOMAIN v = UNION { DOMAIN fs[i] : i \in 1..Len(fs) }
    /\ \A j \in 1..Len(fs) : \A p \in LeafPaths(fs[j]) :
          (\A i \in (j + 1)..Len(fs) : LeavesAlone(fs[i], p))
              => At(v, p) = At(fs[j], p)

\* C1: source precedence.  In a synchronous resolution the value handed to
\* the schema is the deep merge of the readers' fragments in registration
\* order: the last reader that supplies a key wins, keys of earlier readers
\* are kept (value {s:"1"}, file {s:"2",n:1}, env {s:"3",..} gives s = "3",
\* n = 1).
C1_SourcePrecedence ==
    (api = "v1" /\ Ran /\ op \in {"parse", "safeParse"} /\ validated # NoInput) =>
        LET fs == Fragments(api, Resolved_reads)
        IN /\ validated.val = Rec(RefMerge(fs))
           /\ Precedence(fs, validated.val.m)
           /\ DOMAIN calls = DOMAIN Resolved_reads

\* value, then file, then env, resolved by parse.
C1_Witness ==
    /\ api = "v1" /\ rpc = "done" /\ op = "parse" /\ target = "this"
    /\ reads = <<ReadRecord(ValueFrag), ReadFile(1, Ok(FileFrag)), ReadEnv(EnvDict)>>
    /\ validated = Input(Rec(SetProp(Obj2(ks, Str(3), kn, Num(1)),
                                     ko, Rec(Obj1(kpS, Str(4))))))
    /\ outcome = Ok(validated.val)

\* C2: asynchronous ordering.  In every asynchronous resolution the input
\* handed to the schema is the deep merge of the fragments in registration
\* order, whatever the order in which the asynchronous reads settled.
C2_AsyncOrdering ==
    (Ran /\ op \in {"parseAsync", "safeParseAsync"} \cup
                   (IF api = "v2" THEN {"parse", "safeParse"} ELSE {})
         /\ validated # NoInput) =>
        LET fs == Fragments(api, reads)
        IN /\ validated.val = Rec(RefMerge(fs))
           /\ Precedence(fs, validated.val.m)

\* A function read, then two asynchronous reads with conflicting keys that
\* settled in the reverse of their registration order.
C2_Witness ==
    /\ api = "v1" /\ rpc = "done" /\ op = "parseAsync"
    /\ reads = <<ReadFn(Ok(FnFrag)), ReadFnAsync(Ok(AsyncFrag)),
                 ReadFnAsync(Ok(FileFrag))>>
    /\ order = <<3, 2>>
    /\ validated = Input(Rec(SetProp(Obj2(ks, Str(2), kn, Num(1)),
                                     ko, Rec(Obj1(ka, Str(6))))))

\* C3: mode mismatch ordering.  A synchronous parse or safeParse on a parser
\* with an asynchronous reader fails with the mode-mismatch error; no reader
\* has been invoked and nothing has been validated.
C3_ModeMismatchFirst ==
    (ModeMismatchCall /\ rpc = "done") =>
        /\ outcome = Throw([type |-> "ModeMismatch", method |-> op])
        /\ calls = <<>>
        /\ validated = NoInput

\* safeParse on an asynchronous parser that also holds synchronous reads.
C3_Witness ==
    /\ ModeMismatchCall /\ rpc = "done" /\ op = "safeParse"
    /\ reads = <<ReadRecord(ValueFrag), ReadFnAsync(Ok(AsyncFrag)), ReadFn(Ok(FnFrag))>>
    /\ outcome.k = "throw" /\ calls = <<>>

\* An asynchronous reader has been registered on the builder (the parser
\* readAsync returned, or the parser it was called on) that the last
\* synchronous resolution was called on.
SyncCallAfterReadAsync ==
    /\ api = "v1" /\ rpc = "done" /\ op \in {"parse", "safeParse"}
    /\ \/ target = "this" /\ kind = "AsyncConfigParser"
       \/ target = "receiver" /\ recv.exists

\* C4 as claimed: after readAsync, every synchronous resolution on the
\* builder fails with the mode-mismatch error, on the object readAsync
\* returned and on the object it was called on.
C4_Original ==
    SyncCallAfterReadAsync =>
        outcome = Throw([type |-> "ModeMismatch", method |-> op])

\* C4 amended: a synchronous resolution on the parser readAsync returned
\* fails with the mode-mismatch error.  The parser readAsync was called on
\* is left as it was: its reads are the synchronous reads registered before
\* the call, and its parse and safeParse resolve those alone.
C4_ReadAsyncResult ==
    /\ (ModeMismatchCall /\ rpc = "done") => outcome.k = "throw" /\ outcome.err.type = "ModeMismatch"
    /\ recv.exists =>
          /\ \A i \in 1..Len(recv.reads) : ~isAsync(recv.reads[i])
          /\ Len(recv.reads) < Len(reads)
          /\ recv.reads = SubSeq(reads, 1, Len(recv.reads))
          /\ isAsync(reads[Len(recv.reads) + 1])
    /\ (api = "v1" /\ rpc = "done" /\ target = "receiver" /\ validated # NoInput) =>
          validated.val = Rec(RefMerge(Fragments(api, recv.reads)))

\* parse on the receiver of readAsync completed with the data of its own
\* reads, the parser returned by readAsync holding an asynchronous read.
C4_Witness ==
    /\ api = "v1" /\ rpc = "done" /\ target = "receiver" /\ op = "parse"
    /\ kind = "AsyncConfigParser"
    /\ recv.reads = <<ReadRecord(ValueFrag)>>
    /\ reads = <<ReadRecord(ValueFrag), ReadFnAsync(Ok(AsyncFrag))>>
    /\ outcome = Ok(Rec(Obj2(ks, Str(1), ko, Rec(EmptyObj))))

\* C5: safeParse and safeParseAsync do not throw for a validation failure:
\* when every read succeeded they return the tagged result, success with
\* the data or failure with the problem list.
C5_SafeParseTagged ==
    (Ran /\ op \in {"safeParse", "safeParseAsync"}
         /\ \A i \in 1..Len(Resolved_reads) : ~ReadFails(api, Resolved_reads[i])) =>
        /\ validated # NoInput
        /\ outcome.k = "ok"
        /\ LET r == zodParse(ConfigSchema, validated.val, <<>>)
           IN IF r.ok
              THEN outcome.val = [success |-> TRUE, data |-> r.data]
              ELSE /\ r.problems # {}
                   /\ outcome.val = [success |-> FALSE, error |-> r.problems]

\* safeParse of the v2 parser on a fragment with a number where the schema
\* wants a string: a failure result with the problem at path s.
C5_Witness ==
    /\ api = "v2" /\ rpc = "done" /\ op = "safeParse"
    /\ reads = <<Reader(FALSE, Ok(FnFrag))>>
    /\ outcome = Ok([success |-> FALSE,
                     error |-> {Problem(<<ks>>, "string", "num")}])

\* C6: reader-level errors are not covered by the safe mode.  If a read
\* fails, every terminal operation that runs the reads fails with the error
\* of a failing read, validates nothing, and safeParse returns no result.
C6_ReaderErrorsPropagate ==
    (Ran /\ \E i \in 1..Len(Resolved_reads) : ReadFails(api, Resolved_reads[i])) =>
        /\ outcome.k = "throw"
        /\ \E i \in 1..Len(Resolved_reads) :
              /\ ReadFails(api, Resolved_reads[i])
              /\ outcome.err = ReadOutcome(api, Resolved_reads[i]).err
        /\ validated = NoInput

\* safeParse with a file whose parsed contents are a string.
C6_Witness ==
    /\ api = "v1" /\ rpc = "done" /\ op = "safeParse" /\ target = "this"
    /\ reads = <<ReadRecord(ValueFrag), ReadFile(1, Ok(Str(9)))>>
    /\ outcome = Throw([type |-> "FileNotRecord", path |-> 1, got |-> "string"])

\* What safeParse returns on reads that all succeed.
SafeResultOf(a, rs) ==
    schemaSafeParse(ConfigSchema, Rec(RefMerge(Fragments(a, rs))))

\* C7: parse and parseAsync fail exactly when the validation of the merged
\* fragment fails, with the problem list safeParse returns on the same
\* reads as its error; when it succeeds they return the data safeParse
\* returns.
C7_ParseMatchesSafeParse ==
    (Ran /\ \A i \in 1..Len(Resolved_reads) : ~ReadFails(api, Resolved_reads[i])) =>
        LET r == SafeResultOf(api, Resolved_reads)
        IN IF op \in {"safeParse", "safeParseAsync"}
           THEN outcome = Ok(r)
           ELSE IF r.success THEN outcome = Ok(r.data)
           ELSE /\ outcome = Throw([type |-> "ZodError", issues |-> r.error])
                /\ r.error # {}
                /\ \A pr \in r.error : Len(pr.path) > 0

\* parse on a fragment with a number where the schema wants a string throws
\* the problem at path s.
C7_Witness ==
    /\ api = "v1" /\ rpc = "done" /\ op = "parse" /\ target = "this"
    /\ reads = <<ReadRecord(ValueFrag), ReadFn(Ok(FnFrag))>>
    /\ outcome = Throw([type |-> "ZodError",
                        issues |-> {Problem(<<ks>>, "string", "num")}])

----------------------------------------------------------------------------
(* Further claims on the merge specification *)

\* The paths of object f that hold a value, scalar or record.
RECURSIVE ValuePaths(_)
ValuePaths(f) ==
    UNION { {<<k>>} \cup (IF f[k].t = "rec"
                          THEN { <<k>> \o p : p \in ValuePaths(f[k].m) }
                          ELSE {}) : k \in DOMAIN f }

\* C11: shape-conflict replacement.  Where fragment j brings a value at a
\* path and the value accumulated there before it and the incoming one are
\* not both records, nothing of what was accumulated survives: the result
\* holds at that path what the merge of fragments j.. alone holds there
\* (merge([{x:{a:1}},{x:2}]) = {x:2}, merge([{x:{a:1}},{x:2},{x:{b:3}}]) =
\* {x:{b:3}}).
C11_ShapeConflictReplaces ==
    /\ mpc = "done" =>
          \A j \in 1..Len(mfrags) : \A p \in ValuePaths(mfrags[j]) :
              ~(/\ At(RefMerge(SubSeq(mfrags, 1, j - 1)), p).t = "rec"
                /\ At(mfrags[j], p).t = "rec")
              => At(MergeResult, p)
                   = At(RefMerge(SubSeq(mfrags, j, Len(mfrags))), p)
    /\ MergeValues(<<Obj1(kx, Rec(Obj1(ka, Num(1)))), Obj1(kx, Num(2))>>)
         = Obj1(kx, Num(2))
    /\ MergeValues(<<Obj1(kx, Rec(Obj1(ka, Num(1)))), Obj1(kx, Num(2)),
                     Obj1(kx, Rec(Obj1(kb, Num(3))))>>)
         = Obj1(kx, Rec(Obj1(kb, Num(3))))

\* A record, then a scalar, then a record again at key x: only the last
\* record is left.
C11_Witness ==
    /\ mpc = "done"
    /\ mfrags = <<Obj1(kx, Rec(Obj1(ka, Num(1)))), Obj1(kx, Num(2)),
                  Obj1(kx, Rec(Obj1(kb, Num(2))))>>
    /\ MergeResult = Obj1(kx, Rec(Obj1(kb, Num(2))))

----------------------------------------------------------------------------
(* The encoder specification: the environment-style path encoder (config.ts
   212-220, 378-387) applied to paths of one or two segments *)

\* The characters segments are made of: a lower-case letter, two capital
\* letters and a character without case.
EncChars == {"a", "A", "B", "_"}

MaxSegLen == 3

\* The segments of up to MaxSegLen characters.
Segments == UNION { [1..n -> EncChars] : n \in 0..MaxSegLen }

\* The segments that stand next to another one in a path of two.
OtherSegments == { <<"a">>, <<"a", "B">>, <<"B", "a">> }

EncPaths ==
    { <<s>> : s \in Segments }
      \cup { <<s, t>> : s \in Segments, t \in OtherSegments }
      \cup { <<t, s>> : s \in Segments, t \in OtherSegments }

InitEncode ==
    /\ ParserOff /\ MergeOff /\ ConcOff /\ BuildOff
    /\ cpc = "ready" /\ cargs \in EncPaths /\ cret = <<>>

\* The encoder is called on the path: the key, and the pieces each segment
\* was split into on the way.
EncodeCall ==
    /\ cpc = "ready"
    /\ cpc' = "done"
    /\ cret' = [key |-> envVarName(cargs),
                pieces |-> [i \in 1..Len(cargs) |-> split(cargs[i])]]
    /\ UNCHANGED <<cargs, mergeVars, parserVars, concVars, buildVars>>

NextEncode == EncodeCall

SpecEncode == InitEncode /\ [][NextEncode]_vars

----------------------------------------------------------------------------
(* Claims on the encoder specification *)

\* A segment upper-cased, with an underscore before each capital letter
\* that is not its first character.
RECURSIVE UnderscoredUpper(_, _)
UnderscoredUpper(seg, i) ==
    IF i > Len(seg) THEN <<>>
    ELSE (IF i > 1 /\ seg[i] \in UpperCase THEN <<"_">> ELSE <<>>)
            \o <<toUpperCase(seg[i])>> \o UnderscoredUpper(seg, i + 1)

\* The segments so written, with two underscores between them.
RECURSIVE DoubleUnderscored(_, _)
DoubleUnderscored(path, i) ==
    IF i > Len(path) THEN <<>>
    ELSE (IF i > 1 THEN <<"_", "_">> ELSE <<>>)
            \o UnderscoredUpper(path[i], 1) \o DoubleUnderscored(path, i + 1)

\* C12: environment key encoding.  The key of a path is every segment
\* upper-cased with a single underscore before each capital letter inside
\* it, the segments joined with a double underscore: database.url gives
\* DATABASE__URL, database.poolSize gives DATABASE__POOL_SIZE, logLevel gives
\* LOG_LEVEL.
C12_EnvKeyEncoding ==
    /\ cpc = "done" => cret.key = DoubleUnderscored(cargs, 1)
    /\ envVarName(<< <<"d","a","t","a","b","a","s","e">>, <<"u","r","l">> >>)
         = <<"D","A","T","A","B","A","S","E","_","_","U","R","L">>
    /\ envVarName(<< <<"d","a","t","a","b","a","s","e">>,
                     <<"p","o","o","l","S","i","z","e">> >>)
         = <<"D","A","T","A","B","A","S","E","_","_",
             "P","O","O","L","_","S","I","Z","E">>
    /\ envVarName(<< <<"l","o","g","L","e","v","e","l">> >>)
         = <<"L","O","G","_","L","E","V","E","L">>

\* The path a.aB encoded to A__A_B.
C12_Witness ==
    /\ cpc = "done"
    /\ cargs = << <<"a">>, <<"a", "B">> >>
    /\ cret.key = <<"A", "_", "_", "A", "_", "B">>

\* The positions of a segment at which a piece other than the first starts.
Boundaries(pieces) ==
    { Len(join(SubSeq(pieces, 1, j), <<>>)) + 1 : j \in 1..(Len(pieces) - 1) }

LowerCase == {LowerLetters[i] : i \in DOMAIN LowerLetters}

\* C13 as claimed: a piece boundary lies between two adjacent characters of
\* a segment if and only if the first is lower-case and the second is
\* upper-case.
C13_Original ==
    cpc = "done" =>
        \A i \in 1..Len(cargs) :
            Boundaries(cret.pieces[i])
              = { k \in 2..Len(cargs[i]) :
                    cargs[i][k - 1] \in LowerCase /\ cargs[i][k] \in UpperCase }

\* C13 amended: a piece boundary lies before a character of a segment if and
\* only if the character is upper-case and not the first of the segment,
\* whatever precedes it; the pieces make up the segment, and the key is the
\* pieces upper-cased and joined with one underscore, the segments joined
\* with two.
C13_SplitBeforeCapitals ==
    cpc = "done" =>
        /\ \A i \in 1..Len(cargs) :
              /\ Boundaries(cret.pieces[i])
                   = { k \in 2..Len(cargs[i]) : cargs[i][k] \in UpperCase }
              /\ join(cret.pieces[i], <<>>) = cargs[i]
        /\ cret.key =
              join([i \in 1..Len(cargs) |->
                      join([j \in 1..Len(cret.pieces[i]) |->
                              upper(cret.pieces[i][j])], <<"_">>)],
                   <<"_", "_">>)

\* A segment with two capital letters in a row: aAB is split into a, A, B
\* and encoded to A_A_B.
C13_Witness ==
    /\ cpc = "done"
    /\ cargs = << <<"a", "A", "B">> >>
    /\ cret.pieces = << << <<"a">>, <<"A">>, <<"B">> >> >>
    /\ cret.key = <<"A", "_", "A", "_", "B">>

----------------------------------------------------------------------------
(* The flat-read specification: readFlatRecord (config.ts 416-461) and
   getEnvInput (209-264) applied to a schema and a flat dictionary *)

kd == <<"d">>
kp_s == <<"p", "_", "s">>
ko__a == <<"o", "_", "_", "a">>

\* z.object({ pS: z.string(), p_s: z.string() }): both keys encode to P_S.
CollisionSchema == ZObject(<<Field(kpS, ZString), Field(kp_s, ZString)>>)

\* z.object({ o: z.object({ a: z.string() }), o__a: z.string() }): o.a and
\* o__a both encode to O__A.
NestedCollisionSchema ==
    ZObject(<<Field(ko, ZObject(<<Field(ka, ZString)>>)), Field(ko__a, ZString)>>)

\* z.object({ o: z.object({ a: z.string() }).optional(), b: z.string() })
OptionalObjectSchema ==
    ZObject(<<Field(ko, ZOptional(ZObject(<<Field(ka, ZString)>>))),
              Field(kb, ZString)>>)

\* z.object({ o: z.object({ a: z.string(), b: z.object({ a: z.string() }) }),
\*            s: z.string() })
DeepSchema ==
    ZObject(<<Field(ko, ZObject(<<Field(ka, ZString),
                                  Field(kb, ZObject(<<Field(ka, ZString)>>))>>)),
              Field(ks, ZString)>>)

\* z.object({ d: z.string().default("7"),
\*            o: z.object({ a: z.string().default("8") }).default({ a: "8" }) })
DefaultSchema ==
    ZObject(<<Field(kd, ZDefault(ZString, Str(7))),
              Field(ko, ZDefault(ZObject(<<Field(ka, ZDefault(ZString, Str(8)))>>),
                                 Rec(Obj1(ka, Str(8)))))>>)

\* z.object({ constructor: z.object({ a: z.string() }), s: z.string() })
PrototypeKeySchema ==
    ZObject(<<Field(kconstructor, ZObject(<<Field(ka, ZString)>>)),
              Field(ks, ZString)>>)

\* z.nullable(inner) and z.preprocess(fn, inner): wrappers that are no
\* ZodDefault.
ZNullable(inner) == [k |-> "nullable", inner |-> inner]
ZPreprocess(inner) == [k |-> "effects", inner |-> inner]

\* z.object({ o: z.object({ a: z.string() }).nullable(),
\*            b: z.preprocess(fn, z.object({ a: z.string() })) })
WrappedSchema ==
    ZObject(<<Field(ko, ZNullable(ZObject(<<Field(ka, ZString)>>))),
              Field(kb, ZPreprocess(ZObject(<<Field(ka, ZString)>>)))>>)

FlatSchemas ==
    { ConfigSchema, CollisionSchema, NestedCollisionSchema, OptionalObjectSchema,
      DeepSchema, DefaultSchema, PrototypeKeySchema, WrappedSchema }

\* The paths of the nodes of a schema at which the walk looks a key up, in
\* the order of the walk: the nodes that are neither objects nor defaults.
RECURSIVE WalkLeaves(_, _)
RECURSIVE WalkShape(_, _, _)
WalkShape(shape, path, i) ==
    IF i > Len(shape) THEN <<>>
    ELSE WalkLeaves(shape[i].node, Append(path, shape[i].key))
            \o WalkShape(shape, path, i + 1)

WalkLeaves(schema, path) ==
    IF isZodObject(schema) THEN WalkShape(schema.shape, path, 1)
    ELSE IF isZodDefault(schema) THEN WalkLeaves(schema.inner, path)
    ELSE <<path>>

SchemaLeaves(schema) ==
    LET w == WalkLeaves(schema, <<>>) IN { w[i] : i \in DOMAIN w }

\* The paths of the named children beneath the wrappers that are no
\* defaults: what the leaves were if the walk looked through such wrappers.
RECURSIVE DeepLeaves(_, _)
RECURSIVE DeepShape(_, _, _)
DeepShape(shape, path, i) ==
    IF i > Len(shape) THEN {}
    ELSE DeepLeaves(shape[i].node, Append(path, shape[i].key))
            \cup DeepShape(shape, path, i + 1)

DeepLeaves(schema, path) ==
    IF isZodObject(schema) THEN DeepShape(schema.shape, path, 1)
    ELSE IF schema.k \in {"default", "optional", "nullable", "effects"}
    THEN DeepLeaves(schema.inner, path)
    ELSE {path}

HiddenChildren(schema) == DeepLeaves(schema, <<>>) \ SchemaLeaves(schema)

\* The values of a dictionary: the empty string, another string, null.
EmptyString == Str(0)
FlatValues == {EmptyString, Str(1), Null}

\* The encoders, and the keys a dictionary for (schema, encoder) may hold:
\* the keys of the leaves, the keys of the children beneath a wrapper, and
\* the key the other encoder gives the first leaf.
Encoders == {"env", "hyphen"}

FlatKeys(schema, enc) ==
    { Encode(enc, p) : p \in SchemaLeaves(schema) \cup HiddenChildren(schema) }
      \cup { Encode(CHOOSE e \in Encoders : e # enc, WalkLeaves(schema, <<>>)[1]) }

FlatDicts(schema, enc) ==
    UNION { [D -> FlatValues] : D \in SUBSET FlatKeys(schema, enc) }

InitFlat ==
    /\ ParserOff /\ MergeOff /\ ConcOff /\ BuildOff
    /\ cpc = "ready" /\ cret = <<>>
    /\ \E schema \in FlatSchemas : \E enc \in Encoders :
         \E env \in FlatDicts(schema, enc) :
            cargs = [env |-> env, schema |-> schema, pathToKey |-> enc]

\* readFlatRecord(env, schema, pathToKey), the body of a flatReader.
FlatReadCall ==
    /\ cpc = "ready"
    /\ cpc' = "readFlatRecord"
    /\ cret' = readFlatRecord(cargs.env, cargs.schema, cargs.pathToKey)
    /\ UNCHANGED <<cargs, mergeVars, parserVars, concVars, buildVars>>

\* getEnvInput(read, schema) of a readEnv(env) source.
EnvInputCall ==
    /\ cpc = "ready" /\ cargs.pathToKey = "env"
    /\ cpc' = "getEnvInput"
    /\ cret' = getEnvInput(ReadEnv(cargs.env), cargs.schema)
    /\ UNCHANGED <<cargs, mergeVars, parserVars, concVars, buildVars>>

NextFlat == FlatReadCall \/ EnvInputCall

SpecFlat == InitFlat /\ [][NextFlat]_vars

----------------------------------------------------------------------------
(* Claims on the flat-read specification *)

FlatDone == cpc \in {"readFlatRecord", "getEnvInput"}

\* The key of a leaf, and whether the dictionary holds a value under a key
\* (value != null).
KeyOf(p) == Encode(cargs.pathToKey, p)
Present(key) == Lookup(cargs.env, key).t \notin {"undefined", "null"}

\* C14: collision acceptance.  When two different leaves of the schema
\* encode to the same key and the dictionary holds a value under it, the
\* read raises no error and both leaves hold that value in the fragment.
C14_CollisionAcceptance ==
    FlatDone =>
        \A p \in SchemaLeaves(cargs.schema) : \A q \in SchemaLeaves(cargs.schema) :
            (p # q /\ KeyOf(p) = KeyOf(q) /\ Present(KeyOf(p))) =>
                /\ cret.k = "ok"
                /\ At(cret.val, p) = cargs.env[KeyOf(p)]
                /\ At(cret.val, q) = cargs.env[KeyOf(p)]

\* pS and p_s both read from P_S.
C14_Witness ==
    /\ cpc = "readFlatRecord"
    /\ cargs.schema = CollisionSchema /\ cargs.pathToKey = "env"
    /\ cargs.env = [k \in {<<"P", "_", "S">>} |-> Str(1)]
    /\ cret = Ok(Obj2(kpS, Str(1), kp_s, Str(1)))

\* q is an initial part of p.
IsPrefix(q, p) == Len(q) <= Len(p) /\ SubSeq(p, 1, Len(q)) = q

\* C15: flat-source read result.  The fragment a flat read returns holds
\* value v at path p if and only if p is the path of a leaf of the schema
\* and the dictionary holds the non-null value v (the empty string
\* included) under the key of p; it holds nothing else, and no record
\* without a populated leaf beneath it.
C15_FlatReadResult ==
    (FlatDone /\ cret.k = "ok") =>
        /\ \A p \in SchemaLeaves(cargs.schema) :
              At(cret.val, p) = IF Present(KeyOf(p)) THEN cargs.env[KeyOf(p)]
                                ELSE Undefined
        /\ LeafPaths(cret.val) \subseteq SchemaLeaves(cargs.schema)
        /\ \A q \in ValuePaths(cret.val) :
              \E p \in LeafPaths(cret.val) : IsPrefix(q, p)

\* The hyphen encoder on the nested schema: o-b-a holds the empty string, s
\* holds null, o-a is absent, and a key of the other encoder is ignored.
C15_Witness ==
    /\ cpc = "readFlatRecord"
    /\ cargs.schema = DeepSchema /\ cargs.pathToKey = "hyphen"
    /\ DOMAIN cargs.env = {<<"o", "-", "b", "-", "a">>, <<"s">>, <<"O", "_", "_", "A">>}
    /\ cargs.env[<<"o", "-", "b", "-", "a">>] = EmptyString
    /\ cargs.env[<<"s">>] = Null
    /\ cret = Ok(Obj1(ko, Rec(Obj1(kb, Rec(Obj1(ka, EmptyString))))))

\* A schema without its default wrappers.
RECURSIVE StripDefaults(_)
StripDefaults(schema) ==
    IF isZodDefault(schema) THEN StripDefaults(schema.inner)
    ELSE IF isZodObject(schema)
    THEN ZObject([i \in 1..Len(schema.shape) |->
                    Field(schema.shape[i].key, StripDefaults(schema.shape[i].node))])
    ELSE schema

\* The paths of the default-wrapped nodes of a schema.
RECURSIVE DefaultPaths(_, _)
DefaultPaths(schema, path) ==
    IF isZodDefault(schema) THEN {path} \cup DefaultPaths(schema.inner, path)
    ELSE IF isZodObject(schema)
    THEN UNION { DefaultPaths(schema.shape[i].node, Append(path, schema.shape[i].key)) :
                   i \in 1..Len(schema.shape) }
    ELSE {}

\* C16: defaults are not consulted while reading.  The read of a schema is
\* the read of the schema without its default wrappers (same paths, same
\* keys); every value of the fragment is a value of the dictionary; a
\* defaulted node with no key present beneath it is absent from the
\* fragment, and the validation of the fragment puts the fallback there.
C16_DefaultsNotRead ==
    FlatDone =>
        /\ cret = readFlatRecord(cargs.env, StripDefaults(cargs.schema), cargs.pathToKey)
        /\ cret.k = "ok" =>
              /\ \A p \in LeafPaths(cret.val) :
                    \E k \in DOMAIN cargs.env : At(cret.val, p) = cargs.env[k]
              /\ \A d \in DefaultPaths(cargs.schema, <<>>) :
                    (\A p \in SchemaLeaves(cargs.schema) :
                        IsPrefix(d, p) => ~Present(KeyOf(p)))
                    => At(cret.val, d) = Undefined
        /\ (cret = Ok(EmptyObj) /\ cargs.schema = DefaultSchema) =>
              zodParse(DefaultSchema, Rec(cret.val), <<>>).data
                = Rec(Obj2(kd, Str(7), ko, Rec(Obj1(ka, Str(8)))))

\* The schema with defaults read from a dictionary that holds only null
\* under the key of d: the fragment is empty.
C16_Witness ==
    /\ cpc = "getEnvInput"
    /\ cargs.schema = DefaultSchema
    /\ cargs.env = [k \in {<<"D">>} |-> Null]
    /\ cret = Ok(EmptyObj)

----------------------------------------------------------------------------
(* The file-read specification: getFileInput (config.ts 266-278) applied to
   a path, a loader and a parser *)

\* The paths, and the contents a loader yields (strings).
FilePaths == {1, 2}
FileContents == {Str(1), Str(2)}
LoaderError == [type |-> "LoaderError"]
ParserError == [type |-> "ParserError"]

\* The loaders, read: (path) => F, and the parsers, parse: (contents) =>
\* unknown, each given by what it yields or throws for every argument.
Loaders == [FilePaths -> {Ok(c) : c \in FileContents} \cup {Throw(LoaderError)}]
Parsers ==
    [FileContents -> {Ok(FileFrag), Ok(Rec(EmptyObj)), Ok(Str(9)), Ok(Num(1)),
                      Ok(Null), Ok(Arr), Throw(ParserError)}]

\* read.parse(read.read(read.path))
ParseOfRead(path, read, parse) ==
    IF read[path].k = "throw" THEN read[path] ELSE parse[read[path].val]

InitFile ==
    /\ ParserOff /\ MergeOff /\ ConcOff /\ BuildOff
    /\ cpc = "ready" /\ cret = <<>>
    /\ \E path \in FilePaths : \E read \in Loaders : \E parse \in Parsers :
          cargs = [path |-> path, read |-> read, parse |-> parse]

\* getFileInput(read) of a readFile(path, read, parse) source.
FileInputCall ==
    /\ cpc = "ready"
    /\ cpc' = "getFileInput"
    /\ cret' = getFileInput(ReadFile(cargs.path,
                                     ParseOfRead(cargs.path, cargs.read, cargs.parse)))
    /\ UNCHANGED <<cargs, mergeVars, parserVars, concVars, buildVars>>

NextFile == FileInputCall

SpecFile == InitFile /\ [][NextFile]_vars

----------------------------------------------------------------------------
(* Claims on the file-read specification *)

\* The shape of a value.
ShapeOf(value) ==
    CASE value.t = "str" -> "string" [] value.t = "num" -> "number"
      [] value.t = "null" -> "null" [] value.t = "arr" -> "array"
      [] OTHER -> "record"

\* C18: file reader shape check.  The loader is called with the path and the
\* parser with what it loaded; a parsed record is the fragment, unchanged,
\* and any other parsed value (string, number, null, array) makes the read
\* fail with an error that names the path and the shape of the value.
C18_Original ==
    (cpc = "getFileInput" /\ cargs.read[cargs.path].k = "ok"
        /\ cargs.parse[cargs.read[cargs.path].val].k = "ok") =>
        LET input == cargs.parse[cargs.read[cargs.path].val].val
        IN IF input.t = "rec" THEN cret = Ok(input)
           ELSE cret = Throw([type |-> "FileNotRecord", path |-> cargs.path,
                              got |-> ShapeOf(input)])

----------------------------------------------------------------------------
(* The steps of an asynchronous resolution *)

\* The last terminal operation was an asynchronous resolution of the parser
\* at the end of the chain: parseAsync or safeParseAsync of the v1
\* AsyncConfigParser, parse or safeParse of the v2 parser.
AsyncResolution ==
    /\ rpc # "idle" /\ target = "this"
    /\ \/ api = "v1" /\ kind = "AsyncConfigParser"
          /\ op \in {"parseAsync", "safeParseAsync"}
       \/ api = "v2" /\ op \in {"parse", "safeParse"}

\* The merge of the fragments of all the promises, by index.
FullMerge == Rec(MergeValues(Objs([i \in 1..Len(slots) |-> slots[i].val])))

\* C19: in every asynchronous resolution each registered reader, synchronous
\* or asynchronous, is invoked exactly once and the readers are started in
\* registration order; while a reader has not produced its fragment nothing
\* has been validated and nothing returned; whatever was validated is the
\* merge of the fragments of all the readers, and a resolution that one
\* reader failed validated nothing.
C19_AsyncStepOrder ==
    AsyncResolution =>
        /\ calls = [i \in 1..Len(reads) |-> i]
        /\ Len(slots) = Len(reads)
        /\ rpc = "pending" => validated = NoInput /\ outcome = NoOutcome
        /\ validated # NoInput =>
            /\ rpc = "done"
            /\ \A i \in 1..Len(slots) : slots[i].st = "resolved"
            /\ validated = Input(FullMerge)
            /\ outcome = Validate(op, ConfigSchema, FullMerge)
        /\ rpc = "done" /\ validated = NoInput =>
            \E i \in 1..Len(slots) :
                slots[i].st = "rejected" /\ outcome = Throw(slots[i].err)

\* A resolution over a synchronous reader and two asynchronous ones that
\* settled against registration order, merged and validated at the end.
C19_Witness ==
    /\ AsyncResolution /\ rpc = "done" /\ validated # NoInput
    /\ Len(reads) = 3 /\ ~isAsync(reads[1])
    /\ order = <<3, 2>>

\* An asynchronous resolution waiting for its last reader, the others having
\* produced their fragments.
C19_PendingWitness ==
    /\ AsyncResolution /\ rpc = "pending" /\ Len(order) = 1
    /\ Cardinality({i \in 1..Len(slots) : slots[i].st = "pending"}) = 1

----------------------------------------------------------------------------
(* The concurrent specification: two resolutions of one v2 parser whose
   readers' steps interleave; the objects the readers yield live on one heap *)

ConcReaders == 2
Runs == {1, 2}

\* The readers registered with the parser.
ConcReaderArgs ==
    { valueReader(FnFrag), envReader(EnvDict),
      Reader(TRUE, Ok(AsyncFrag)), Reader(TRUE, Ok(FileFrag)),
      Reader(TRUE, Throw(AsyncError)) }

\* The objects the readers' closures hold: valueReader returns its value at
\* every call (391-393); a reader function is taken to yield one object at
\* every call too, the case in which two resolutions share most.  as: per
\* reader the address of its object (0: it has none).
RECURSIVE ConcStore(_, _, _, _)
ConcStoreNext(s, rs, i, as) == ConcStore(s.h, rs, i + 1, Append(as, s.c.a))

ConcStore(h, rs, i, as) ==
    IF i > Len(rs) THEN [h |-> h, as |-> as]
    ELSE IF ~rs[i].flat /\ rs[i].out.k = "ok" /\ rs[i].out.val.t = "rec"
    THEN ConcStoreNext(Store(h, rs[i].out.val), rs, i, as)
    ELSE ConcStore(h, rs, i + 1, Append(as, 0))

IdleRun ==
    [st |-> "idle", op |-> "none", slots |-> <<>>, order |-> <<>>,
     target |-> 0, validated |-> NoInput, outcome |-> NoOutcome]

\* A v2 parser after its chain of read calls; no resolution started.
InitConc ==
    /\ MergeOff /\ CallOff /\ BuildOff
    /\ api = "v2" /\ kind = "ConfigParser"
    /\ reads \in UNION { [1..n -> ConcReaderArgs] : n \in 0..ConcReaders }
    /\ recv = NoReceiver /\ target = "this"
    /\ rpc = "idle" /\ op = "none" /\ slots = <<>> /\ calls = <<>>
    /\ order = <<>> /\ validated = NoInput /\ outcome = NoOutcome
    /\ cheap = ConcStore(<<>>, reads, 1, <<>>).h
    /\ robj = ConcStore(<<>>, reads, 1, <<>>).as
    /\ runs = [r \in Runs |-> IdleRun]

\* What reader i's promise comes to: a reference to its object, or what it
\* yields otherwise (an error, a value that is no object).
ConcOut(i) == IF robj[i] # 0 THEN Ok(Ref(robj[i])) ELSE reads[i].out

\* reads.map(async (read) => await read(schema)) on heap h (468-469): the
\* readers are called in order; a flat reader builds a new object at every
\* call (readFlatRecord, 420), the others yield theirs.
RECURSIVE ConcInvoke(_, _, _)
ConcInvokeStored(s, i, outs) == ConcInvoke(s.h, i + 1, Append(outs, Ok(s.c)))

ConcInvokeFlat(h, i, outs, out) ==
    IF out.k = "ok" /\ out.val.t = "rec"
    THEN ConcInvokeStored(Store(h, out.val), i, outs)
    ELSE ConcInvoke(h, i + 1, Append(outs, out))

ConcInvoke(h, i, outs) ==
    IF i > Len(reads) THEN [h |-> h, outs |-> outs]
    ELSE IF reads[i].flat
    THEN ConcInvokeFlat(h, i, outs, ReaderCall(reads[i], ConfigSchema))
    ELSE ConcInvoke(h, i + 1, Append(outs, ConcOut(i)))

\* The promises the map made: that of a synchronous reader is settled (with
\* the record check of 471-475), that of an asynchronous one is pending.
ConcSlots(outs) ==
    [i \in 1..Len(outs) |->
        IF isAsync(reads[i]) THEN Pending ELSE Settled(CheckRecord(outs[i]))]

ConcAddrs(vals) == [i \in 1..Len(vals) |-> vals[i].a]

\* return deepMerge(resolvedReads) and the validation that follows (481,
\* 350-351, 361-362), m what deepMerge came to.
ConcValidate(r, o, sl, ord, m) ==
    /\ cheap' = m.h
    /\ runs' = [runs EXCEPT ![r] =
                 [st |-> "done", op |-> o, slots |-> sl, order |-> ord,
                  target |-> m.r,
                  validated |-> Input(Rec(Deref(m.h, m.r))),
                  outcome |-> Validate(o, ConfigSchema, Rec(Deref(m.h, m.r)))]]

\* The continuation of resolution r once its promises sl stand as they do.
ConcContinue(r, o, h, sl, ord, rejectedBy) ==
    /\ IF rejectedBy # 0
       THEN /\ cheap' = h
            /\ runs' = [runs EXCEPT ![r] =
                         [st |-> "done", op |-> o, slots |-> sl, order |-> ord,
                          target |-> 0, validated |-> NoInput,
                          outcome |-> Throw(sl[rejectedBy].err)]]
       ELSE IF ~AllResolved(sl)
       THEN /\ cheap' = h
            /\ runs' = [runs EXCEPT ![r] =
                         [st |-> "pending", op |-> o, slots |-> sl, order |-> ord,
                          target |-> 0, validated |-> NoInput,
                          outcome |-> NoOutcome]]
       ELSE ConcValidate(r, o, sl, ord,
                         deepMerge(h, ConcAddrs(PromiseAll(sl, ord))))
    /\ UNCHANGED <<mergeVars, parserVars, callVars, buildVars, robj>>

ConcAwait(r, o, h, sl) ==
    ConcContinue(r, o, h, sl, <<>>, StartRejected(api, reads, ConfigSchema, sl))

ConcStarted(r, o, inv) == ConcAwait(r, o, inv.h, ConcSlots(inv.outs))

\* A call of parse or safeParse (349-363) that starts resolution r.
ConcStart(r, o) ==
    /\ runs[r].st = "idle"
    /\ ConcStarted(r, o, ConcInvoke(cheap, 1, <<>>))

ConcParse == \E r \in Runs : ConcStart(r, "parse")
ConcSafeParse == \E r \in Runs : ConcStart(r, "safeParse")

\* The promise of an asynchronous reader of one resolution settles.
ConcSettle ==
    \E r \in Runs :
        /\ runs[r].st = "pending"
        /\ \E i \in 1..Len(runs[r].slots) :
            /\ runs[r].slots[i].st = "pending"
            /\ LET s == Settled(CheckRecord(ConcOut(i)))
               IN ConcContinue(r, runs[r].op, cheap,
                               [runs[r].slots EXCEPT ![i] = s],
                               Append(runs[r].order, i),
                               IF s.st = "rejected" THEN i ELSE 0)

NextConc == ConcParse \/ ConcSafeParse \/ ConcSettle

SpecConc == InitConc /\ [][NextConc]_vars

----------------------------------------------------------------------------
(* Claims on the concurrent specification *)

\* The outcome of a resolution that runs alone and whose asynchronous
\* readers settle in the order ord (NoOutcome while one is pending).
RECURSIVE LoneSettle(_, _, _, _)
LoneSettle(o, sl, ord, j) ==
    IF j > Len(ord)
    THEN IF AllResolved(sl)
         THEN Validate(o, ConfigSchema, Rec(MergeValues(Objs(PromiseAll(sl, ord)))))
         ELSE NoOutcome
    ELSE LET s == SettleSlot("v2", reads[ord[j]], ConfigSchema)
         IN IF s.st = "rejected" THEN Throw(s.err)
            ELSE LoneSettle(o, [sl EXCEPT ![ord[j]] = s], ord, j + 1)

LoneResult(o, ord) ==
    LET sl == [i \in 1..Len(reads) |-> StartSlot("v2", reads[i], ConfigSchema)]
        first == StartRejected("v2", reads, ConfigSchema, sl)
    IN IF first # 0 THEN Throw(sl[first].err) ELSE LoneSettle(o, sl, ord, 1)

\* The addresses of the objects reachable from object a of the heap.
RECURSIVE Reach(_, _)
Reach(h, a) ==
    {a} \cup UNION { Reach(h, h[a][k].a) : k \in {k \in DOMAIN h[a] : h[a][k].t = "ref"} }

\* The fragments resolution r's own reader invocations returned to it.
OwnFragments(r) ==
    {i \in 1..Len(runs[r].slots) : runs[r].slots[i].st = "resolved"}

C20_State ==
    /\ \A i \in 1..Len(reads) :
          robj[i] # 0 => Rec(Deref(cheap, robj[i])) = reads[i].out.val
    /\ \A r \in Runs : runs[r].st # "idle" =>
        /\ Len(runs[r].slots) = Len(reads)
        /\ runs[r].outcome = LoneResult(runs[r].op, runs[r].order)
        /\ \A i \in OwnFragments(r) :
              Rec(Deref(cheap, runs[r].slots[i].val.a))
                = ReadOutcome("v2", reads[i]).val
        /\ runs[r].target # 0 =>
            /\ runs[r].validated
                 = Input(Rec(RefMerge(Fragments("v2", reads))))
            /\ Rec(Deref(cheap, runs[r].target)) = runs[r].validated.val
            /\ \A q \in Runs : \A i \in OwnFragments(q) :
                  runs[r].target \notin Reach(cheap, runs[q].slots[i].val.a)
            /\ \A q \in Runs \ {r} :
                  runs[q].target # 0 =>
                      runs[r].target \notin Reach(cheap, runs[q].target)

\* C20: two resolutions started on one parser, the steps of their
\* asynchronous readers interleaving in any way: each merges the fragments
\* its own reader invocations returned into a parse target of its own (an
\* object that is no fragment, no part of one, and no part of the other
\* resolution's target), the fragments and the target stay what they were
\* whatever the other resolution does, each resolution's outcome is the one
\* it has when it runs alone with its readers settling in the same order,
\* and no step of a resolution changes the parser's reader list.
C20_ConcurrentIndependent ==
    /\ []C20_State
    /\ [][reads' = reads]_vars

\* Both resolutions are over, each merged and validated; the steps of their
\* two asynchronous readers interleaved and settled in opposite orders.
C20_Witness ==
    /\ \A r \in Runs : runs[r].st = "done" /\ runs[r].target # 0
    /\ runs[1].order = <<1, 2>> /\ runs[2].order = <<2, 1>>
    /\ runs[1].outcome = runs[2].outcome

----------------------------------------------------------------------------
(* parseArgs, src/unnamed/part_001 (cli.ts).  An argument is a sequence of
   one-character strings; a flag value is true or a string. *)

True == [t |-> "true"]
Text(s) == [t |-> "text", s |-> s]

nullState == [type |-> "null"]
flagState(flag) == [type |-> "flag", flag |-> flag]

\* value.slice(1, -1) when the string starts and ends with a double quote
\* (lines 15-21).
StripQuotes(value) ==
    IF value.t = "text" /\ Len(value.s) >= 1
       /\ value.s[1] = "\"" /\ value.s[Len(value.s)] = "\""
    THEN Text(SubSeq(value.s, 2, Len(value.s) - 1))
    ELSE value

\* addFlagValue (13-24).  args.flags is built from {}: for a name it
\* inherits, args.flags[flag] is a function, `?? []` keeps it and
\* values.push throws a TypeError that leaves parseArgs.
addFlagValue(parsed, flag, value) ==
    IF parsed.threw THEN parsed
    ELSE IF flag \notin DOMAIN parsed.flags /\ GetProp(parsed.flags, flag) # Undefined
    THEN [parsed EXCEPT !.threw = TRUE]
    ELSE [parsed EXCEPT !.flags =
            SetProp(@, flag,
                    Append(IF flag \in DOMAIN @ THEN @[flag] ELSE <<>>,
                           StripQuotes(value)))]

\* The index of the first "=" of arg (0: none).
FirstEq(arg) ==
    IF \E p \in 1..Len(arg) : arg[p] = "="
    THEN CHOOSE p \in 1..Len(arg) :
            arg[p] = "=" /\ \A q \in 1..(p - 1) : arg[q] # "="
    ELSE 0

StartsDashDash(arg) == Len(arg) >= 2 /\ arg[1] = "-" /\ arg[2] = "-"

\* arg.match(/^--([^=]+)=(.*)$/), /^--(.+)$/, /^-([^=])=(.*)/,
\* /^-([^-])(.+)/ and /^-(.+)$/ (lines 31, 44, 61, 74, 87).
longFlagValueMatch(arg) == StartsDashDash(arg) /\ FirstEq(arg) >= 4
longFlagMatch(arg) == StartsDashDash(arg) /\ Len(arg) >= 3
shortFlagEqValueMatch(arg) ==
    Len(arg) >= 3 /\ arg[1] = "-" /\ arg[2] # "=" /\ arg[3] = "="
shortFlagValueMatch(arg) == Len(arg) >= 3 /\ arg[1] = "-" /\ arg[2] # "-"
shortFlagMatch(arg) == Len(arg) >= 2 /\ arg[1] = "-"

\* if (state.type === "flag") { addFlagValue(parsed, state.flag, true);
\* state = nullState(); }
FlushState(parsed) ==
    IF parsed.state.type = "flag"
    THEN [addFlagValue(parsed, parsed.state.flag, True) EXCEPT !.state = nullState]
    ELSE parsed

\* A flag without a value in the argument (52-58, 95-101), the pending state
\* flushed: true when it is the last argument, pending otherwise.
BareFlag(parsed, flag, last) ==
    IF last THEN addFlagValue(parsed, flag, True)
    ELSE [parsed EXCEPT !.state = flagState(flag)]

\* An argument that matches none of the patterns (104-111): a variant that
\* also keeps the value of a flag among the positionals.
PlainArgKept(parsed, arg) ==
    IF parsed.state.type = "flag"
    THEN [addFlagValue([parsed EXCEPT !.positional = Append(@, arg)],
                       parsed.state.flag, Text(arg)) EXCEPT !.state = nullState]
    ELSE [parsed EXCEPT !.positional = Append(@, arg)]

\* An argument that matches none of the patterns (104-111).
PlainArg(parsed, arg) ==
    IF parsed.state.type = "flag"
    THEN [addFlagValue(parsed, parsed.state.flag, Text(arg)) EXCEPT !.state = nullState]
    ELSE [parsed EXCEPT !.positional = Append(@, arg)]

\* The callback of args.reduce (30-112) for the argument arg, last: it is
\* the last one (i === args.length - 1).
ReduceStep(parsed, arg, last) ==
    IF parsed.threw THEN parsed
    ELSE IF longFlagValueMatch(arg)
    THEN addFlagValue(FlushState(parsed), SubSeq(arg, 3, FirstEq(arg) - 1),
                      Text(SubSeq(arg, FirstEq(arg) + 1, Len(arg))))
    ELSE IF longFlagMatch(arg)
    THEN BareFlag(FlushState(parsed), SubSeq(arg, 3, Len(arg)), last)
    ELSE IF shortFlagEqValueMatch(arg)
    THEN addFlagValue(FlushState(parsed), <<arg[2]>>, Text(SubSeq(arg, 4, Len(arg))))
    ELSE IF shortFlagValueMatch(arg)
    THEN addFlagValue(FlushState(parsed), <<arg[2]>>, Text(SubSeq(arg, 3, Len(arg))))
    ELSE IF shortFlagMatch(arg)
    THEN BareFlag(FlushState(parsed), SubSeq(arg, 2, Len(arg)), last)
    ELSE PlainArg(parsed, arg)

RECURSIVE Reduce(_, _, _)
Reduce(parsed, args, i) ==
    IF i > Len(args) THEN parsed
    ELSE Reduce(ReduceStep(parsed, args[i], i = Len(args)), args, i + 1)

\* parseArgs(args) (26-118): the parsed arguments, or the TypeError.
ParsedOrThrow(parsed) ==
    IF parsed.threw THEN Throw([type |-> "TypeError"])
    ELSE Ok([positional |-> parsed.positional, flags |-> parsed.flags])

parseArgs(args) ==
    ParsedOrThrow(Reduce([positional |-> <<>>, flags |-> EmptyObj,
                          state |-> nullState, threw |-> FALSE], args, 1))

----------------------------------------------------------------------------
(* The argument specification: one call of parseArgs *)

MaxArgs == 2
ArgChars == {"-", "=", "a", "\""}

\* The arguments: every string of at most two characters, and longer ones of
\* every flag form.
ArgTokens ==
    UNION { [1..n -> ArgChars] : n \in 0..2 }
    \cup { <<"-", "-", "a">>, <<"-", "-", "b">>, <<"-", "-", "a", "=", "a">>,
           <<"-", "-", "a", "=">>, <<"-", "-", "=", "a">>,
           <<"-", "a", "=", "a">>, <<"-", "a", "=">>, <<"-", "a", "a">>,
           <<"-", "a", "-">>, <<"-", "=", "a">>, <<"\"", "a", "\"">>,
           <<"-", "-", "a", "=", "\"", "a", "\"">>, <<"-", "-", "a", "=", "a", "=">>,
           <<"-", "-">> \o kconstructor }

InitArgs ==
    /\ MergeOff /\ ParserOff /\ ConcOff /\ BuildOff
    /\ cpc = "ready"
    /\ cargs \in UNION { [1..n -> ArgTokens] : n \in 0..MaxArgs }
    /\ cret = <<>>

ParseArgsCall ==
    /\ cpc = "ready"
    /\ cpc' = "parseArgs"
    /\ cret' = parseArgs(cargs)
    /\ UNCHANGED <<cargs, mergeVars, parserVars, concVars, buildVars>>

NextArgs == ParseArgsCall

SpecArgs == InitArgs /\ [][NextArgs]_vars

----------------------------------------------------------------------------
(* Claims on the argument specification *)

\* A flag token: --name, --name=value, -x, -x=value, -xvalue.
IsFlagToken(arg) == Len(arg) >= 2 /\ arg[1] = "-"

\* The name of a flag token and the value it carries (None: it carries none).
None == [t |-> "none"]
FlagForm(arg) ==
    IF arg[2] = "-" /\ Len(arg) >= 3
    THEN IF \E p \in 4..Len(arg) : arg[p] = "=" /\ \A q \in 3..(p - 1) : arg[q] # "="
         THEN LET p == CHOOSE x \in 4..Len(arg) :
                          arg[x] = "=" /\ \A q \in 3..(x - 1) : arg[q] # "="
              IN [name |-> SubSeq(arg, 3, p - 1),
                  value |-> Text(SubSeq(arg, p + 1, Len(arg)))]
         ELSE [name |-> SubSeq(arg, 3, Len(arg)), value |-> None]
    ELSE IF Len(arg) = 2 THEN [name |-> <<arg[2]>>, value |-> None]
    ELSE IF arg[3] = "=" /\ arg[2] # "="
         THEN [name |-> <<arg[2]>>, value |-> Text(SubSeq(arg, 4, Len(arg)))]
         ELSE [name |-> <<arg[2]>>, value |-> Text(SubSeq(arg, 3, Len(arg)))]

\* The flag occurrences of an argument list from index i on, in order: each
\* flag token once, with its own value, or the argument after it when that is
\* no flag, or true.
RECURSIVE Occurrences(_, _)
Occurrences(args, i) ==
    IF i > Len(args) THEN <<>>
    ELSE IF ~IsFlagToken(args[i]) THEN Occurrences(args, i + 1)
    ELSE IF FlagForm(args[i]).value # None
    THEN <<FlagForm(args[i])>> \o Occurrences(args, i + 1)
    ELSE IF i < Len(args) /\ ~IsFlagToken(args[i + 1])
    THEN <<[name |-> FlagForm(args[i]).name, value |-> Text(args[i + 1])]>>
            \o Occurrences(args, i + 2)
    ELSE <<[name |-> FlagForm(args[i]).name, value |-> True]>>
            \o Occurrences(args, i + 1)

\* The arguments that are neither flags nor taken as the value of one.
RECURSIVE Positionals(_, _)
Positionals(args, i) ==
    IF i > Len(args) THEN <<>>
    ELSE IF ~IsFlagToken(args[i]) THEN <<args[i]>> \o Positionals(args, i + 1)
    ELSE IF FlagForm(args[i]).value = None /\ i < Len(args)
            /\ ~IsFlagToken(args[i + 1])
    THEN Positionals(args, i + 2)
    ELSE Positionals(args, i + 1)

\* flags[name] of a list of occurrences: the values of the occurrences of
\* name in order (surrounding double quotes removed).
ValuesOf(occ, name) ==
    LET mine == SelectSeq(occ, LAMBDA o : o.name = name)
    IN [j \in 1..Len(mine) |-> StripQuotes(mine[j].value)]

ExpectedArgs(args) ==
    [positional |-> Positionals(args, 1),
     flags |-> [name \in {Occurrences(args, 1)[j].name :
                            j \in 1..Len(Occurrences(args, 1))}
                  |-> ValuesOf(Occurrences(args, 1), name)]]

\* C21 (as stated): parseArgs returns, and every flag token has appended
\* exactly one element to flags[name] in order of occurrence (true for a flag
\* without a value, also when it is the last argument or another flag
\* follows), the other arguments that no flag took as its value being the
\* positionals in their order.
C21_Original ==
    cpc = "parseArgs" => cret = Ok(ExpectedArgs(cargs))

\* The same, for flags whose name no object inherits.
C21_OwnNames ==
    cpc = "parseArgs"
    /\ (\A j \in 1..Len(cargs) : cargs[j] # <<"-", "-">> \o kconstructor)
    => cret = Ok(ExpectedArgs(cargs))


\* A call with two arguments, a flag without a value and an argument that is
\* no flag.
BareFlagThenValue ==
    /\ cpc = "parseArgs" /\ Len(cargs) = 2
    /\ IsFlagToken(cargs[1]) /\ FlagForm(cargs[1]).value = None
    /\ ~IsFlagToken(cargs[2])

PlainName(name) == name # <<"-">> /\ \A p \in 1..Len(name) : name[p] # "="

----------------------------------------------------------------------------
(* tryCatchAsync, src/packages/result/src/result.ts 127-135 *)

\* Ok(value) and Err(value) of result.ts (95-103).
ResultOk(value) == [ok |-> TRUE, value |-> value]
ResultErr(value) == [ok |-> FALSE, value |-> value]

\* What the call fn() does: it returns a promise that resolves to val or
\* rejects with val, or it throws val before it returns one.
FnKinds == {"resolves", "rejects", "throws"}
FnValues ==
    { Num(0), Num(1), Num(2), Str(0), Str(1), Str(2), Null, Undefined, Arr, Fn,
      Rec(EmptyObj), ValueFrag, FileFrag, FnFrag }

InitTry ==
    /\ MergeOff /\ ParserOff /\ ConcOff /\ BuildOff
    /\ cpc = "ready"
    /\ cargs \in [kind : FnKinds, val : FnValues]
    /\ cret = <<>>

\* The call tryCatchAsync(fn): the body of the async function runs, an
\* exception of fn() rejects the promise the call returns; otherwise that
\* promise follows fn().then(Ok, Err), which is pending.
TryCatchAsyncCall ==
    /\ cpc = "ready"
    /\ IF cargs.kind = "throws"
       THEN cpc' = "settled" /\ cret' = Rejected(cargs.val)
       ELSE cpc' = "pending" /\ cret' = Pending
    /\ UNCHANGED <<cargs, mergeVars, parserVars, concVars, buildVars>>

\* The promise of fn() settles and then(Ok, Err) runs Ok or Err.
TrySettle ==
    /\ cpc = "pending"
    /\ cpc' = "settled"
    /\ cret' = IF cargs.kind = "resolves" THEN Resolved(ResultOk(cargs.val))
               ELSE Resolved(ResultErr(cargs.val))
    /\ UNCHANGED <<cargs, mergeVars, parserVars, concVars, buildVars>>

NextTry == TryCatchAsyncCall \/ TrySettle

SpecTry == InitTry /\ [][NextTry]_vars

\* C23 (as stated): the promise tryCatchAsync returns is never rejected; it
\* resolves to Ok(value) when fn succeeds and to Err(error) when fn fails,
\* by a rejected promise or by throwing.
C23_Original ==
    /\ cpc \in {"pending", "settled"} => cret.st # "rejected"
    /\ cpc = "settled" =>
          cret = IF cargs.kind = "resolves" THEN Resolved(ResultOk(cargs.val))
                 ELSE Resolved(ResultErr(cargs.val))

----------------------------------------------------------------------------
(* The shape specification: resolutions of parsers whose readers may yield
   something that is no record *)

ShapeReaders == 2

\* What the caller's values, functions, files and promises yield: a record,
\* a string, null; a function may also throw, a promise may be rejected.
ShapeValues == { FnFrag, Str(9), Null }

ShapeSyncReads ==
    { ReadRecord(v) : v \in ShapeValues } \cup { ReadFn(Ok(v)) : v \in ShapeValues }
    \cup { ReadFile(1, Ok(v)) : v \in ShapeValues } \cup { ReadEnv(EnvDict) }
    \cup { ReadFn(Throw(FnError)) }
ShapeAsyncReads ==
    { ReadFnAsync(Ok(v)) : v \in ShapeValues } \cup { ReadFnAsync(Throw(AsyncError)) }
ShapeReaderArgs ==
    { valueReader(v) : v \in ShapeValues } \cup { Reader(TRUE, Ok(v)) : v \in ShapeValues }
    \cup { envReader(EnvDict), Reader(TRUE, Throw(AsyncError)) }

Lists(S) == UNION { [1..n -> S] : n \in 1..ShapeReaders }

\* A parser at the end of its builder chain: a v1 ConfigParser, a v1
\* AsyncConfigParser (some read is asynchronous), a v2 parser.
InitShape ==
    /\ MergeOff /\ CallOff /\ ConcOff /\ BuildOff
    /\ \/ /\ api = "v1" /\ kind = "ConfigParser"
          /\ reads \in Lists(ShapeSyncReads)
       \/ /\ api = "v1" /\ kind = "AsyncConfigParser"
          /\ reads \in Lists(ShapeSyncReads \cup ShapeAsyncReads)
          /\ \E i \in 1..Len(reads) : isAsync(reads[i])
       \/ /\ api = "v2" /\ kind = "ConfigParser"
          /\ reads \in Lists(ShapeReaderArgs)
    /\ recv = NoReceiver /\ target = "this"
    /\ rpc = "idle" /\ op = "none" /\ slots = <<>> /\ calls = <<>>
    /\ order = <<>> /\ validated = NoInput /\ outcome = NoOutcome

NextShape ==
    \/ Parse \/ SafeParse
    \/ ParseAsync \/ SafeParseAsync \/ ReaderParse \/ ReaderSafeParse
    \/ Settle

SpecShape == InitShape /\ [][NextShape]_vars

\* The same with every reader's promise settling in the end: while a
\* resolution awaits a promise, one of those it awaits settles.
SpecShapeFair == SpecShape /\ WF_vars(Settle)

\* What the caller's part of a read hands to the parser: the value, the
\* result of the function or of the file's parser, what the promise resolves
\* to (the flat readers build their record themselves).
Yield(read) ==
    CASE read.type = "record" -> Ok(read.value)
      [] read.type \in {"function", "function-async"} -> read.fn
      [] read.type = "file" -> read.read
      [] read.type = "reader" /\ ~read.flat -> read.out
      [] OTHER -> Ok(Rec(EmptyObj))

YieldsNonRecord(read) == Yield(read).k = "ok" /\ Yield(read).val.t # "rec"

\* C24 (as stated): for every kind of reader, when a reader of a resolution
\* yields something that is no record, the resolution fails with an error
\* of a reader and nothing is merged or validated.
C24_Original ==
    rpc = "done" /\ op # "none"
    /\ (\E i \in 1..Len(reads) : YieldsNonRecord(reads[i]))
    => outcome.k = "throw" /\ validated = NoInput

----------------------------------------------------------------------------
(* Further claims on the flat-read specification *)

\* The named children beneath the leaf at path p (a wrapper that is no
\* default around a composite).
ChildrenBeneath(p) ==
    {q \in HiddenChildren(cargs.schema) : IsPrefix(p, q)}

\* C25: only objects and defaults are traversed.  A node of any other shape
\* that wraps a composite (optional, nullable, preprocess) is a leaf: the
\* read succeeds, the fragment holds at its path what the dictionary holds
\* under the key of that path (nothing when that is absent or null), and
\* nothing at the path of a named child beneath it, whatever the dictionary
\* holds under the child's key.
C25_WrappersAreLeaves ==
    FlatDone =>
        \A p \in SchemaLeaves(cargs.schema) :
            ChildrenBeneath(p) # {} =>
                /\ cret.k = "ok"
                /\ At(cret.val, p) = IF Present(KeyOf(p)) THEN cargs.env[KeyOf(p)]
                                     ELSE Undefined
                /\ \A q \in ChildrenBeneath(p) : At(cret.val, q) = Undefined

\* The dictionary holds the keys of the children O__A and B__A and the key B
\* of the preprocess-wrapped object: the fragment is { b: "1" }.
C25_Witness ==
    /\ cpc = "readFlatRecord"
    /\ cargs.schema = WrappedSchema /\ cargs.pathToKey = "env"
    /\ cargs.env = [k \in {<<"O", "_", "_", "A">>, <<"B", "_", "_", "A">>, <<"B">>}
                      |-> Str(1)]
    /\ cret = Ok(Obj1(kb, Str(1)))


\* C26 (as stated): for every schema and every dictionary no leaf path is a
\* proper prefix of another leaf path, every intermediate position of the
\* fragment is a record, and the read never raises the structural-conflict
\* error.
C26_Original ==
    FlatDone =>
        /\ \A p \in SchemaLeaves(cargs.schema) : \A q \in SchemaLeaves(cargs.schema) :
              IsPrefix(p, q) => p = q
        /\ cret.k = "ok"
        /\ \A p \in SchemaLeaves(cargs.schema) : \A n \in 1..(Len(p) - 1) :
              At(cret.val, SubSeq(p, 1, n)).t \in {"rec", "undefined"}

----------------------------------------------------------------------------
(* Claims on the shape specification *)

\* #gatherInputs of the AsyncConfigParser (176-187) over reads rs none of
\* which is asynchronous: each read resolved by itself, the results merged.
AsyncGather(rs) ==
    LET sl == [i \in 1..Len(rs) |-> StartSlot("v1", rs[i], ConfigSchema)]
        first == StartRejected("v1", rs, ConfigSchema, sl)
    IN IF first # 0 THEN Throw(sl[first].err)
       ELSE Ok(Rec(MergeValues(Objs(PromiseAll(sl, <<>>)))))

AsyncOf(o) == IF o = "parse" THEN "parseAsync" ELSE "safeParseAsync"
SyncOf(o) == IF o = "parseAsync" THEN "parse" ELSE "safeParse"

\* The asynchronous function of a read taken as a synchronous one that
\* returns what the promise resolves to.
AsSync(rs) ==
    [i \in 1..Len(rs) |-> IF isAsync(rs[i]) THEN ReadFn(rs[i].fn) ELSE rs[i]]

\* What parse or safeParse returns or throws, g what gatherSyncInputs gave.
OutcomeOf(o, out) ==
    IF out.k = "throw" THEN out ELSE Validate(o, ConfigSchema, out.val)

\* C27: the synchronous and the asynchronous path agree.  For every list of
\* synchronous readers the fragment (or the reader error) that the
\* asynchronous path comes to, each reader resolved by itself with
\* gatherSyncInputs([read]) and the results merged, is the one
\* gatherSyncInputs(reads) comes to, and parseAsync / safeParseAsync gives
\* what parse / safeParse gave; and an asynchronous resolution that came to
\* validate validated the fragment, and gave the outcome, of the synchronous
\* path over the same readers with each asynchronous function taken as a
\* synchronous one.
C27_SyncAsyncAgree ==
    /\ (api = "v1" /\ kind = "ConfigParser" /\ rpc = "done"
        /\ op \in {"parse", "safeParse"}) =>
          /\ AsyncGather(reads) = gatherSyncInputs(reads, ConfigSchema).out
          /\ outcome = OutcomeOf(AsyncOf(op), AsyncGather(reads))
          /\ validated = IF AsyncGather(reads).k = "ok"
                         THEN Input(AsyncGather(reads).val) ELSE NoInput
    /\ (api = "v1" /\ kind = "AsyncConfigParser" /\ rpc = "done"
        /\ op \in {"parseAsync", "safeParseAsync"}) =>
          (validated # NoInput =>
            /\ validated = Input(gatherSyncInputs(AsSync(reads), ConfigSchema).out.val)
            /\ outcome = OutcomeOf(SyncOf(op),
                                   gatherSyncInputs(AsSync(reads), ConfigSchema).out))

\* parse over a function that yields { s: 7, o: { a: "5" } } and the
\* environment { S: "3", O__P_S: "4" }: both paths merge o key by key.
C27_Witness ==
    /\ api = "v1" /\ kind = "ConfigParser" /\ rpc = "done" /\ op = "parse"
    /\ reads = <<ReadFn(Ok(FnFrag)), ReadEnv(EnvDict)>>
    /\ validated = Input(AsyncGather(reads).val)
    /\ At(validated.val.m, <<ko, ka>>) = Str(5)
    /\ At(validated.val.m, <<ko, kpS>>) = Str(4)
    /\ At(validated.val.m, <<ks>>) = Str(3)


\* A step of a resolution that is awaiting its readers.
AwaitingStep ==
    rpc = "pending" =>
        /\ reads' = reads /\ calls' = calls /\ op' = op
        /\ \E i \in 1..Len(slots) :
              /\ slots[i].st = "pending" /\ slots'[i].st # "pending"
              /\ order' = Append(order, i)
              /\ \A j \in 1..Len(slots) : j # i => slots'[j] = slots[j]
        /\ rpc' = "pending" =>
              /\ \E j \in 1..Len(slots') : slots'[j].st = "pending"
              /\ \A j \in 1..Len(slots') : slots'[j].st # "rejected"

\* C28: an asynchronous resolution terminates when its readers do.  With
\* every reader's promise settling in the end, every resolution that awaits
\* its readers completes (with data, a validation failure or the error of a
\* reader); the only step of an awaiting resolution is the settlement of one
\* of its readers' promises, no reader is invoked again, and the resolution
\* completes in the step in which its last promise settles or one is
\* rejected: the merge and the validation add no waiting, and there is no
\* timeout, retry or cancellation.
C28_AsyncTerminates ==
    /\ (rpc = "pending") ~> (rpc = "done" /\ outcome # NoOutcome)
    /\ [][AwaitingStep]_vars

\* A resolution over two asynchronous readers that is over: both settled,
\* the second first, and the outcome is there.
C28_Witness ==
    /\ rpc = "done" /\ op \in {"parseAsync", "safeParseAsync"}
    /\ Len(reads) = 2 /\ order = <<2, 1>>
    /\ outcome # NoOutcome /\ validated # NoInput


----------------------------------------------------------------------------
(* A failing reader in an asynchronous resolution *)

\* Some reader of the resolution has failed: its promise is rejected.
ReaderFailed == \E i \in 1..Len(slots) : slots[i].st = "rejected"

\* The merge of the fragments of the readers that did produce one.
PartialMerge ==
    Rec(MergeValues(Objs(PromiseAll(
        SelectSeq(slots, LAMBDA s : s.st = "resolved"), order))))

\* What holds of an asynchronous resolution one of whose readers failed.
Aborted ==
    /\ rpc = "done" /\ validated = NoInput
    /\ outcome.k = "throw"
    /\ \E i \in 1..Len(reads) :
          /\ ReadFails(api, reads[i]) /\ slots[i].st = "rejected"
          /\ outcome.err = ReadOutcome(api, reads[i]).err
    /\ outcome # Validate(op, ConfigSchema, PartialMerge)

\* C30: a failing reader aborts an asynchronous resolution without
\* validation.  When a reader of parseAsync or safeParseAsync (or of the
\* promise-returning parse or safeParse) throws or rejects, the call is
\* rejected with the error of a failing reader in that very step, whatever
\* the other readers have done or have still to do; nothing was merged or
\* validated, and what the call yields is not the validation of the other
\* readers' fragments.  A finished resolution with a reader that fails is
\* always such an aborted one.
C30_FailingReaderAborts ==
    /\ [](AsyncResolution /\ ReaderFailed => Aborted)
    /\ [](AsyncResolution /\ rpc = "done"
            /\ (\E i \in 1..Len(reads) : ReadFails(api, reads[i])) => Aborted)
    /\ [][AsyncResolution' /\ ReaderFailed' /\ ~(AsyncResolution /\ Aborted)
            => rpc' = "done" /\ validated' = NoInput]_vars

\* safeParseAsync over two asynchronous readers: the second is rejected
\* while the first, which would resolve to a valid fragment, is pending.
C30_Witness ==
    /\ AsyncResolution /\ op = "safeParseAsync" /\ rpc = "done"
    /\ reads = <<ReadFnAsync(Ok(FnFrag)), ReadFnAsync(Throw(AsyncError))>>
    /\ slots[1].st = "pending" /\ slots[2].st = "rejected"
    /\ outcome = Throw(AsyncError)


----------------------------------------------------------------------------
(* The builder chains of the v1 parsers: the parsers a program holds and
   the arrays of reads behind them, by address *)

MaxChain == 2
MaxParsers == 2

\* A parser object: its class, the address of ConfigParser's #reads and of
\* AsyncConfigParser's #reads (0 in a ConfigParser, which has none).
ParserObject(class, creads, areads) ==
    [class |-> class, creads |-> creads, areads |-> areads]

\* The #reads the methods of parser p's class work on.
OwnReads(p) == IF p.class = "AsyncConfigParser" THEN p.areads ELSE p.creads

\* The reader list of the i-th parser.
ReadsOf(i) == arrays[OwnReads(parsers[i])]

BuiltCall(method, on, ret) == [method |-> method, on |-> on, ret |-> ret]

\* const parser = new ConfigParser(schema): #reads = [] (26-31).
InitBuild ==
    /\ MergeOff /\ ParserOff /\ CallOff /\ ConcOff
    /\ arrays = << <<>> >>
    /\ parsers = <<ParserObject("ConfigParser", 1, 0)>>
    /\ bcall = BuiltCall("new", 0, 1)

\* this.#reads.push(read); return this, on the i-th parser.
PushOn(i, read, method) ==
    /\ Len(ReadsOf(i)) < MaxChain
    /\ arrays' = [arrays EXCEPT ![OwnReads(parsers[i])] = Append(@, read)]
    /\ bcall' = BuiltCall(method, i, i)
    /\ UNCHANGED <<parsers, mergeVars, parserVars, callVars, concVars>>

\* read, readFile, readEnv and readValue of both classes (39-42, 64-93,
\* 129-156).
BuildRead ==
    \E i \in 1..Len(parsers) : PushOn(i, ReadFn(Ok(FnFrag)), "read")
BuildReadFile ==
    \E i \in 1..Len(parsers) : PushOn(i, ReadFile(1, Ok(FileFrag)), "readFile")
BuildReadEnv ==
    \E i \in 1..Len(parsers) : PushOn(i, ReadEnv(EnvDict), "readEnv")
BuildReadValue ==
    \E i \in 1..Len(parsers) : PushOn(i, ReadRecord(ValueFrag), "readValue")

\* [...this.#reads, read] on heap h, a the address of this.#reads: a variant
\* that pushes the read onto this.#reads and hands that array on.
readAsyncReadsShared(h, a, read) ==
    [h |-> [h EXCEPT ![a] = Append(@, read)], a |-> a]

\* [...this.#reads, read] on heap h, a the address of this.#reads: a new
\* array with the elements of this.#reads and the read (51-54).
readAsyncReads(h, a, read) ==
    [h |-> Append(h, Append(h[a], read)), a |-> Len(h) + 1]

\* ConfigParser.readAsync (50-55): new AsyncConfigParser(schema, [...]), whose
\* constructor (123-127) makes ConfigParser's empty #reads by super(schema)
\* and keeps the array it was given as its own #reads.
NewAsyncConfigParser(i, copy) ==
    /\ Len(parsers) < MaxParsers
    /\ Len(ReadsOf(i)) < MaxChain
    /\ arrays' = Append(copy.h, <<>>)
    /\ parsers' = Append(parsers,
            ParserObject("AsyncConfigParser", Len(copy.h) + 1, copy.a))
    /\ bcall' = BuiltCall("readAsync", i, Len(parsers) + 1)
    /\ UNCHANGED <<mergeVars, parserVars, callVars, concVars>>

\* readAsync of a ConfigParser (50-55) and of an AsyncConfigParser (134-137).
BuildReadAsync ==
    \E i \in 1..Len(parsers) :
        IF parsers[i].class = "ConfigParser"
        THEN NewAsyncConfigParser(i,
                readAsyncReads(arrays, parsers[i].creads, ReadFnAsync(Ok(AsyncFrag))))
        ELSE PushOn(i, ReadFnAsync(Ok(AsyncFrag)), "readAsync")

NextBuild ==
    \/ BuildRead \/ BuildReadFile \/ BuildReadEnv \/ BuildReadValue
    \/ BuildReadAsync

SpecBuild == InitBuild /\ [][NextBuild]_vars

\* The type of read each builder method registers.
ReadTypeOf(method) ==
    CASE method = "read" -> "function" [] method = "readFile" -> "file"
      [] method = "readEnv" -> "env" [] method = "readValue" -> "record"
      [] OTHER -> "function-async"

\* A step of readAsync on a ConfigParser: the receiver and every other
\* parser are as before, the parser returned is a new AsyncConfigParser whose
\* readers are the receiver's followed by the asynchronous reader, in an
\* array of its own.
ReadAsyncStep ==
    LET i == bcall'.on
        r == bcall'.ret
    IN /\ Len(parsers') = Len(parsers) + 1 /\ r = Len(parsers')
       /\ parsers'[r].class = "AsyncConfigParser"
       /\ \A q \in 1..Len(parsers) :
             /\ parsers'[q] = parsers[q]
             /\ arrays'[OwnReads(parsers'[q])] = ReadsOf(q)
             /\ OwnReads(parsers'[q]) # OwnReads(parsers'[r])
       /\ Len(arrays'[OwnReads(parsers'[r])]) = Len(ReadsOf(i)) + 1
       /\ SubSeq(arrays'[OwnReads(parsers'[r])], 1, Len(ReadsOf(i))) = ReadsOf(i)
       /\ arrays'[OwnReads(parsers'[r])][Len(ReadsOf(i)) + 1].type = "function-async"

\* A step of any other builder method: it returns its receiver, whose list
\* is the one before with one reader of the method's type at the end; the
\* list of every other parser is as before.
PushStep ==
    LET i == bcall'.on
    IN /\ bcall'.ret = i /\ parsers' = parsers
       /\ Len(arrays'[OwnReads(parsers[i])]) = Len(ReadsOf(i)) + 1
       /\ SubSeq(arrays'[OwnReads(parsers[i])], 1, Len(ReadsOf(i))) = ReadsOf(i)
       /\ arrays'[OwnReads(parsers[i])][Len(ReadsOf(i)) + 1].type
             = ReadTypeOf(bcall'.method)
       /\ \A q \in 1..Len(parsers) :
             q # i => arrays'[OwnReads(parsers[q])] = ReadsOf(q)

\* C29: readAsync on a synchronous parser leaves that parser unchanged and
\* returns a new asynchronous parser whose reader list is a copy of the
\* receiver's readers at that moment followed by the asynchronous reader;
\* readers registered afterwards on either parser are never seen by the
\* other.  Every other builder method (readAsync of an asynchronous parser
\* included) appends exactly one reader at the end of its receiver's own
\* list and returns the receiver, the earlier readers staying in place.
C29_BuilderFrames ==
    [][IF bcall'.method = "readAsync" /\ parsers[bcall'.on].class = "ConfigParser"
       THEN ReadAsyncStep ELSE PushStep]_vars

\* q = p.readAsync(f); q.readEnv(e); p.read(g): the two lists have grown
\* apart.
C29_Witness ==
    /\ Len(parsers) = 2 /\ bcall = BuiltCall("read", 1, 1)
    /\ ReadsOf(1) = <<ReadFn(Ok(FnFrag))>>
    /\ ReadsOf(2) = <<ReadFnAsync(Ok(AsyncFrag)), ReadEnv(EnvDict)>>

====
